---- MODULE Spec2Model ----
(***************************************************************************)
(* Clinical summary generator: the tabular store, the episode resolver,    *)
(* the patient/episode filters, the summarizers, the fallback template and *)
(* the summary orchestrator with its text-generation client.               *)
(***************************************************************************)
EXTENDS Integers, Sequences, FiniteSets, TLC

VARIABLES
    tables,     \* the six CSV tables: name -> [cols, rows]
    sortTies,   \* how this build's unstable sort orders equal keys
    env,        \* process environment: is OPENAI_API_KEY set
    pc,         \* position of the request in flight
    req,        \* the request being handled
    resp,       \* what the caller got back
    llm,        \* backend calls made for the request in flight
    out         \* result of a direct call of a resolver/summarizer function

vars == <<tables, sortTies, env, pc, req, resp, llm, out>>

(***************************************************************************)
(* Bounds of the model.                                                    *)
(***************************************************************************)
MaxRowsResolve == 2
MaxRowsSum == 2
MaxDate == 2
MaxEpisode == 2

\* pandas NA / NaT / None of an integer, date or numeric cell
NULL == -1

Max(S) == CHOOSE x \in S : \A y \in S : y <= x

SeqToSet(s) == {s[i] : i \in 1..Len(s)}

\* sorted(list(set)): the ascending sequence of a finite set of integers
SortedSeq(S) ==
    [p \in 1..Cardinality(S) |->
        CHOOSE x \in S : Cardinality({y \in S : y < x}) = p - 1]

(***************************************************************************)
(* data_loader.py: the tables and their columns.                           *)
(***************************************************************************)
CSV_FILES == <<"diagnoses", "medications", "vitals", "notes", "wounds", "oasis">>

TableIdx(t) == CHOOSE i \in 1..Len(CSV_FILES) : CSV_FILES[i] = t

\* the columns of each CSV file as the loader types them (section 3 schema)
Columns(t) ==
    CASE t = "diagnoses"   -> {"patient_id", "diagnosis_code", "diagnosis_description"}
      [] t = "medications" -> {"patient_id", "episode_id", "medication_name",
                               "frequency", "classification", "reason"}
      [] t = "vitals"      -> {"patient_id", "episode_id", "visit_date", "vital_type",
                               "reading", "min_value", "max_value"}
      [] t = "notes"       -> {"patient_id", "episode_id", "note_date", "note_type",
                               "note_text"}
      [] t = "wounds"      -> {"patient_id", "episode_id", "location", "description",
                               "onset_date", "visit_date"}
      [] t = "oasis"       -> {"patient_id", "episode_id", "assessment_date",
                               "assessment_type", "grooming", "bathing",
                               "toilet_transfer", "transfer", "ambulation"}

\* the store with every file holding a header line and no rows; the OASIS file
\* comes with or without an episode_id column
EmptyStore(oasisHasEpisode) ==
    [t \in SeqToSet(CSV_FILES) |->
        [cols |-> IF t = "oasis" /\ ~oasisHasEpisode
                  THEN Columns(t) \ {"episode_id"} ELSE Columns(t),
         rows |-> <<>>]]

TotalRows(tbls) ==
    Len(tbls["diagnoses"].rows) + Len(tbls["medications"].rows)
    + Len(tbls["vitals"].rows) + Len(tbls["notes"].rows)
    + Len(tbls["wounds"].rows) + Len(tbls["oasis"].rows)

\* load_data reads the files in CSV_FILES order and each file's rows in file
\* order: a row can be appended to file t while no later file has rows
Appendable(tbls, t) ==
    \A u \in SeqToSet(CSV_FILES) : TableIdx(u) > TableIdx(t) => tbls[u].rows = <<>>

(***************************************************************************)
(* Text.  A string is a sequence of tokens [s, n, v]: the first n          *)
(* characters of s repeated (a literal when n = Len(s), a run of one       *)
(* character when s is that character); v carries the value of a formatted *)
(* number, date or name.                                                   *)
(***************************************************************************)
Tok(s, n, v) == [s |-> s, n |-> n, v |-> v]

Lit(s) == <<Tok(s, Len(s), 0)>>

Chars(c, n) == IF n = 0 THEN <<>> ELSE <<Tok(c, n, 0)>>

\* a missing cell of a text column (read_csv gives NaN)
NaN == <<Tok("nan", 3, NULL)>>

RECURSIVE TLen(_)
\* len(text)
TLen(t) == IF t = <<>> THEN 0 ELSE Head(t).n + TLen(Tail(t))

RECURSIVE Take(_, _)
\* text[:k]
Take(t, k) ==
    IF t = <<>> \/ k <= 0 THEN <<>>
    ELSE IF Head(t).n <= k THEN <<Head(t)>> \o Take(Tail(t), k - Head(t).n)
    ELSE <<[Head(t) EXCEPT !.n = k]>>

\* a run of blanks or of line breaks
IsSpace(tok) == tok.s \in {" ", "\n"}

RECURSIVE LStrip(_)
LStrip(t) == IF t # <<>> /\ IsSpace(Head(t)) THEN LStrip(Tail(t)) ELSE t

RECURSIVE RStrip(_)
RStrip(t) ==
    IF t # <<>> /\ IsSpace(t[Len(t)]) THEN RStrip(SubSeq(t, 1, Len(t) - 1)) ELSE t

\* str.strip()
Strip(t) == RStrip(LStrip(t))

\* str(x) of a float: its digits and ".0"
FloatText(x) == <<Tok("float", (IF x < 10 THEN 1 ELSE IF x < 100 THEN 2 ELSE 3) + 2, x)>>

\* a vital type's name
VitalTypeText(vt) == <<Tok("vital_type", 1, vt)>>

\* str(i) of an integer
IntText(i) == <<Tok("int", IF i < 10 THEN 1 ELSE IF i < 100 THEN 2 ELSE 3, i)>>

\* strftime("%Y-%m-%d") of a date
DateText(d) == <<Tok("%Y-%m-%d", 10, d)>>

NL == <<Tok("\n", 1, 0)>>

\* join(sep, items) of a sequence of texts
RECURSIVE Join(_, _)
Join(sep, items) ==
    IF items = <<>> THEN <<>>
    ELSE IF Len(items) = 1 THEN items[1]
    ELSE items[1] \o sep \o Join(sep, Tail(items))

(***************************************************************************)
(* DataFrame.sort_values(col, ascending=False) on rows whose key is        *)
(* present.  ks is a sequence of <<key, row>>.  The default sort kind is   *)
(* not stable: rows with equal keys come out in row order ("first") or in  *)
(* reverse row order ("last"), fixed per build.                            *)
(***************************************************************************)
SortDesc(ks, ties) ==
    LET n == Len(ks)
        Before(j, i) ==
            \/ ks[j][1] > ks[i][1]
            \/ /\ ks[j][1] = ks[i][1]
               /\ IF ties = "first" THEN j < i ELSE j > i
        Rank(i) == 1 + Cardinality({j \in 1..n : Before(j, i)})
    IN  [p \in 1..n |-> ks[CHOOSE i \in 1..n : Rank(i) = p]]

Keyed(rows, col) == [i \in 1..Len(rows) |-> <<rows[i][col], rows[i]>>]

Unkeyed(ks) == [i \in 1..Len(ks) |-> ks[i][2]]

\* the mutant: the rows sorted with the oldest first
DropnaSortAsc(rows, col, ties) ==
    LET s == Unkeyed(SortDesc(Keyed(SelectSeq(rows, LAMBDA r : r[col] # NULL), col), ties))
    IN  [i \in 1..Len(s) |-> s[Len(s) + 1 - i]]

\* df.dropna(subset=[col]).sort_values(col, ascending=False)
DropnaSortDesc(rows, col, ties) ==
    Unkeyed(SortDesc(Keyed(SelectSeq(rows, LAMBDA r : r[col] # NULL), col), ties))

(***************************************************************************)
(* patient_service.py                                                      *)
(***************************************************************************)
DATE_PRIORITY ==
    << [table |-> "vitals", date_col |-> "visit_date"],
       [table |-> "notes",  date_col |-> "note_date"],
       [table |-> "wounds", date_col |-> "visit_date"],
       [table |-> "oasis",  date_col |-> "assessment_date"] >>

\* df["col"] == value on a nullable integer column: a null cell never matches
CellEquals(cell, value) == cell # NULL /\ value # NULL /\ cell = value

_filter_by_patient(df, patient_id) ==
    IF df.rows = <<>> THEN df
    ELSE IF "patient_id" \notin df.cols THEN [df EXCEPT !.rows = <<>>]
    ELSE [df EXCEPT !.rows =
            SelectSeq(df.rows, LAMBDA r : CellEquals(r.patient_id, patient_id))]

\* the mutant: a row without an episode id belongs to every episode
FilterByEpisodeOrNull(df, episode_id) ==
    IF df.rows = <<>> THEN df
    ELSE IF "episode_id" \notin df.cols THEN [df EXCEPT !.rows = <<>>]
    ELSE [df EXCEPT !.rows =
            SelectSeq(df.rows, LAMBDA r : r.episode_id = NULL
                                          \/ CellEquals(r.episode_id, episode_id))]

_filter_by_episode(df, episode_id) ==
    IF df.rows = <<>> THEN df
    ELSE IF "episode_id" \notin df.cols THEN [df EXCEPT !.rows = <<>>]
    ELSE [df EXCEPT !.rows =
            SelectSeq(df.rows, LAMBDA r : CellEquals(r.episode_id, episode_id))]

\* the episode ids one table contributes for the patient
TableEpisodes(df, patient_id) ==
    IF df.rows = <<>> \/ "patient_id" \notin df.cols \/ "episode_id" \notin df.cols
    THEN {}
    ELSE {r.episode_id : r \in {x \in SeqToSet(df.rows) :
                CellEquals(x.patient_id, patient_id) /\ x.episode_id # NULL}}

get_patient_episodes(tbls, patient_id) ==
    SortedSeq(UNION {TableEpisodes(tbls[t], patient_id) : t \in DOMAIN tbls})

\* the mutant: the oldest row instead of the latest one
OldestRow(rows, date_col, ties) ==
    LET s == DropnaSortDesc(rows, date_col, ties) IN s[Len(s)]

\* patient_df.sort_values(date_col, ascending=False).iloc[0]
LatestRow(rows, date_col, ties) ==
    DropnaSortDesc(rows, date_col, ties)[1]

RECURSIVE ScanDatePriority(_, _, _, _, _)
\* the loop over DATE_PRIORITY from entry i on, with the best (date, episode) so far
ScanDatePriority(tbls, patient_id, ties, i, best) ==
    IF i > Len(DATE_PRIORITY) THEN best
    ELSE
      LET date_col == DATE_PRIORITY[i].date_col
          df == tbls[DATE_PRIORITY[i].table]
          skip == ScanDatePriority(tbls, patient_id, ties, i + 1, best)
      IN
      IF df.rows = <<>> \/ date_col \notin df.cols THEN skip
      ELSE
        LET patient_df == _filter_by_patient(df, patient_id) IN
        IF patient_df.rows = <<>> \/ "episode_id" \notin patient_df.cols THEN skip
        ELSE
          LET dated == SelectSeq(patient_df.rows,
                          LAMBDA r : r[date_col] # NULL /\ r.episode_id # NULL) IN
          IF dated = <<>> THEN skip
          ELSE
            LET latest_row == LatestRow(dated, date_col, ties)
                ep == latest_row.episode_id
                dt == latest_row[date_col]
            IN
            IF best.date = NULL \/ dt > best.date
            THEN ScanDatePriority(tbls, patient_id, ties, i + 1,
                                  [date |-> dt, episode |-> ep])
            ELSE skip

\* returns NULL for Python's None
get_latest_episode_id(tbls, patient_id, ties) ==
    LET episode_ids == get_patient_episodes(tbls, patient_id) IN
    IF episode_ids = <<>> THEN NULL
    ELSE
      LET best == ScanDatePriority(tbls, patient_id, ties, 1,
                                   [date |-> NULL, episode |-> NULL])
      IN IF best.episode = NULL THEN Max(SeqToSet(episode_ids)) ELSE best.episode

get_patient_bundle(tbls, patient_id, ties) ==
    [patient_id |-> patient_id,
     episode_ids |-> get_patient_episodes(tbls, patient_id),
     latest_episode_id |-> get_latest_episode_id(tbls, patient_id, ties),
     data |-> [t \in DOMAIN tbls |-> _filter_by_patient(tbls[t], patient_id)]]

get_episode_bundle(tbls, patient_id, episode_id, ties) ==
    LET bundle == get_patient_bundle(tbls, patient_id, ties) IN
    [t \in DOMAIN bundle.data |->
        LET df == bundle.data[t] IN
        IF df.rows = <<>> THEN df
        ELSE IF "episode_id" \in df.cols THEN _filter_by_episode(df, episode_id)
        ELSE df]

\* the mutant: any loaded row makes every patient present
StoreHasRows(tbls, patient_id) ==
    \E t \in DOMAIN tbls : tbls[t].rows # <<>> /\ "patient_id" \in tbls[t].cols

patient_exists(tbls, patient_id) ==
    \E t \in DOMAIN tbls :
        /\ tbls[t].rows # <<>>
        /\ "patient_id" \in tbls[t].cols
        /\ \E i \in 1..Len(tbls[t].rows) :
              CellEquals(tbls[t].rows[i].patient_id, patient_id)

(***************************************************************************)
(* summarizer.py                                                           *)
(***************************************************************************)
SnippetLimit == 300

TopNotes == 3

\* str(None)
NoneText == <<Tok("None", 4, NULL)>>

\* row.get(col) of a text column: None when the table has no such column
GetText(row, c) == IF c \in DOMAIN row THEN row[c] ELSE NoneText

\* row.get(col) of a numeric or date column
GetNum(row, c) == IF c \in DOMAIN row THEN row[c] ELSE NULL

_safe_str(x) == IF x = NaN \/ x = NoneText THEN <<>> ELSE Strip(x)

_top_n_recent(df, date_col, n, ties) ==
    IF df.rows = <<>> \/ date_col \notin df.cols THEN <<>>
    ELSE LET sorted == DropnaSortDesc(df.rows, date_col, ties)
         IN  SubSeq(sorted, 1, IF Len(sorted) < n THEN Len(sorted) ELSE n)

RECURSIVE ConcatAll(_)
ConcatAll(ss) == IF ss = <<>> THEN <<>> ELSE Head(ss) \o ConcatAll(Tail(ss))

\* the mutant: nothing is dropped
KeepAll(xs, seen, acc) == acc \o xs

RECURSIVE UniqueKeepingOrder(_, _, _)
\* "unique while keeping order": the loop over xs with the seen set
UniqueKeepingOrder(xs, seen, acc) ==
    IF xs = <<>> THEN acc
    ELSE IF Head(xs) \in seen THEN UniqueKeepingOrder(Tail(xs), seen, acc)
    ELSE UniqueKeepingOrder(Tail(xs), seen \cup {Head(xs)}, Append(acc, Head(xs)))

\* what one diagnoses row appends to results
DiagnosisEntry(row, cols) ==
    LET desc == IF "diagnosis_description" \in cols
                THEN _safe_str(GetText(row, "diagnosis_description")) ELSE <<>>
        code == IF "diagnosis_code" \in cols
                THEN _safe_str(GetText(row, "diagnosis_code")) ELSE <<>>
    IN  IF code # <<>> /\ desc # <<>> THEN <<desc \o Lit(" (") \o code \o Lit(")")>>
        ELSE IF desc # <<>> THEN <<desc>>
        ELSE IF code # <<>> THEN <<code>>
        ELSE <<>>

summarize_diagnoses(df) ==
    IF df.rows = <<>> THEN <<>>
    ELSE UniqueKeepingOrder(
            ConcatAll([i \in 1..Len(df.rows) |-> DiagnosisEntry(df.rows[i], df.cols)]),
            {}, <<>>)

MedicationOf(row) ==
    [name |-> _safe_str(GetText(row, "medication_name")),
     frequency |-> _safe_str(GetText(row, "frequency")),
     classification |-> _safe_str(GetText(row, "classification")),
     reason |-> _safe_str(GetText(row, "reason"))]

RECURSIVE MedicationLoop(_, _, _)
\* the loop of summarize_medications over the rows with seen and out
MedicationLoop(rows, seen, acc) ==
    IF rows = <<>> THEN acc
    ELSE LET med == MedicationOf(Head(rows))
             key == <<med.name, med.frequency, med.classification, med.reason>>
         IN  IF key \notin seen /\ med.name # <<>>
             THEN MedicationLoop(Tail(rows), seen \cup {key}, Append(acc, med))
             ELSE MedicationLoop(Tail(rows), seen, acc)

summarize_medications(df) ==
    IF df.rows = <<>> THEN <<>> ELSE MedicationLoop(df.rows, {}, <<>>)

\* the mutant: a reading equal to a bound is flagged too
AbnormalFlagsInclusive(g) ==
    LET vt == VitalTypeText(g.vital_type) IN
    (IF g.reading # NULL /\ g.min_value # NULL /\ g.reading <= g.min_value
     THEN <<vt \o Lit(": ") \o FloatText(g.reading) \o Lit(" (below min ")
              \o FloatText(g.min_value) \o Lit(")")>>
     ELSE <<>>)
    \o
    (IF g.reading # NULL /\ g.max_value # NULL /\ g.reading >= g.max_value
     THEN <<vt \o Lit(": ") \o FloatText(g.reading) \o Lit(" (above max ")
              \o FloatText(g.max_value) \o Lit(")")>>
     ELSE <<>>)

\* the abnormal strings the latest row g of a vital type adds
AbnormalFlags(g) ==
    LET vt == VitalTypeText(g.vital_type)
        reading == GetNum(g, "reading")
        min_val == GetNum(g, "min_value")
        max_val == GetNum(g, "max_value")
    IN
    IF reading # NULL
    THEN (IF min_val # NULL /\ reading < min_val
          THEN <<vt \o Lit(": ") \o FloatText(reading) \o Lit(" (below min ")
                   \o FloatText(min_val) \o Lit(")")>>
          ELSE <<>>)
         \o
         (IF max_val # NULL /\ reading > max_val
          THEN <<vt \o Lit(": ") \o FloatText(reading) \o Lit(" (above max ")
                   \o FloatText(max_val) \o Lit(")")>>
          ELSE <<>>)
    ELSE <<>>

\* a raised IndexError is the result [err |-> "IndexError"]
summarize_vitals(df, ties) ==
    IF df.rows = <<>>
    THEN [err |-> "none", latest_date |-> NULL, latest_vitals |-> <<>>, abnormal |-> <<>>]
    ELSE
      LET sorted == DropnaSortDesc(df.rows, "visit_date", ties) IN
      IF sorted = <<>> THEN [err |-> "IndexError"]
      ELSE
        LET \* groupby sorts the keys and drops the missing ones
            types == SortedSeq({r.vital_type : r \in SeqToSet(sorted)} \ {NULL})
            g(vt) == LatestRow(SelectSeq(sorted, LAMBDA r : r.vital_type = vt),
                               "visit_date", ties)
        IN  [err |-> "none",
             latest_date |-> sorted[1].visit_date,
             latest_vitals |->
                [i \in 1..Len(types) |->
                    [vital_type |-> types[i],
                     reading |-> GetNum(g(types[i]), "reading"),
                     min |-> GetNum(g(types[i]), "min_value"),
                     max |-> GetNum(g(types[i]), "max_value"),
                     date |-> GetNum(g(types[i]), "visit_date")]],
             abnormal |->
                ConcatAll([i \in 1..Len(types) |-> AbnormalFlags(g(types[i]))])]

\* the mutant: the ellipsis marker is never added
SnippetNoEllipsis(text) == Take(text, SnippetLimit)

\* text[:300] + ("..." if len(text) > 300 else "")
Snippet(text) ==
    Take(text, SnippetLimit) \o (IF TLen(text) > SnippetLimit THEN Lit("...") ELSE <<>>)

summarize_notes(df, n, ties) ==
    IF df.rows = <<>> THEN <<>>
    ELSE LET recent == _top_n_recent(df, "note_date", n, ties) IN
         [i \in 1..Len(recent) |->
            [date |-> GetNum(recent[i], "note_date"),
             type |-> _safe_str(GetText(recent[i], "note_type")),
             snippet |-> Snippet(_safe_str(GetText(recent[i], "note_text")))]]

summarize_wounds(df, ties) ==
    IF df.rows = <<>> THEN <<>>
    ELSE
      LET \* sort_values puts the rows without a date last, in row order
          sorted == IF "visit_date" \in df.cols
                    THEN DropnaSortDesc(df.rows, "visit_date", ties)
                         \o SelectSeq(df.rows, LAMBDA r : r.visit_date = NULL)
                    ELSE df.rows
      IN  [i \in 1..Len(sorted) |->
             [location |-> _safe_str(GetText(sorted[i], "location")),
              description |-> _safe_str(GetText(sorted[i], "description")),
              onset_date |-> GetNum(sorted[i], "onset_date"),
              visit_date |-> GetNum(sorted[i], "visit_date")]]

adl_fields == <<"grooming", "bathing", "toilet_transfer", "transfer", "ambulation">>

summarize_oasis(df, ties) ==
    IF df.rows = <<>>
    THEN [err |-> "none", latest_date |-> NULL, assessment_type |-> NoneText,
          adl |-> <<>>]
    ELSE
      LET sorted == DropnaSortDesc(df.rows, "assessment_date", ties) IN
      IF sorted = <<>> THEN [err |-> "IndexError"]
      ELSE
        LET latest == sorted[1]
            present == SelectSeq(adl_fields, LAMBDA f : f \in df.cols)
        IN  [err |-> "none",
             latest_date |-> GetNum(latest, "assessment_date"),
             assessment_type |-> _safe_str(GetText(latest, "assessment_type")),
             adl |-> [i \in 1..Len(present) |->
                        [k |-> present[i], v |-> _safe_str(GetText(latest, present[i]))]]]

\* the dict is built in this order, so the first summarizer to raise decides
prepare_summary_inputs(bundle, patient_id, episode_id, ties) ==
    LET vitals == summarize_vitals(bundle["vitals"], ties)
        oasis == summarize_oasis(bundle["oasis"], ties)
    IN  IF vitals.err # "none" THEN [err |-> vitals.err]
        ELSE IF oasis.err # "none" THEN [err |-> oasis.err]
        ELSE [err |-> "none",
              patient_id |-> patient_id,
              episode_id |-> episode_id,
              diagnoses_summary |-> summarize_diagnoses(bundle["diagnoses"]),
              medications_summary |-> summarize_medications(bundle["medications"]),
              vitals_summary |-> vitals,
              note_highlights |-> summarize_notes(bundle["notes"], TopNotes, ties),
              wounds_summary |-> summarize_wounds(bundle["wounds"], ties),
              oasis_summary |-> oasis]

(***************************************************************************)
(* summary_generator.py: the fallback template.                            *)
(***************************************************************************)
\* summary_generator._fmt_date
TemplateFmtDate(dt) == IF dt = NULL THEN Lit("Not documented") ELSE DateText(dt)

\* f"{eid}": an episode id or None
EpisodeText(eid) == IF eid = NULL THEN NoneText ELSE IntText(eid)

\* f"{reading}": a float or None
ReadingText(reading) == IF reading = NULL THEN NoneText ELSE FloatText(reading)

\* the lines of the template before the final strip()
TemplateLines(si) ==
    LET dx == si.diagnoses_summary
        meds == si.medications_summary
        vitals == si.vitals_summary
        wounds == si.wounds_summary
        oasis == si.oasis_summary
        notes == si.note_highlights
        lv == vitals.latest_vitals
        abnormal == vitals.abnormal
        adl == oasis.adl
        oasis_type == IF oasis.assessment_type = NoneText \/ oasis.assessment_type = <<>>
                      THEN Lit("Not documented") ELSE oasis.assessment_type
        dx_text == IF dx # <<>> THEN [i \in 1..Len(dx) |-> Lit("- ") \o dx[i]]
                   ELSE <<Lit("Not documented")>>
        meds_text ==
            IF meds # <<>>
            THEN [i \in 1..Len(meds) |->
                    Lit("- ") \o meds[i].name \o Lit(" (") \o meds[i].frequency
                    \* ") -- Reason: " stands for the 12 characters with the em dash
                    \o <<Tok(") -- Reason: ", 12, 0)>> \o meds[i].reason]
            ELSE <<Lit("Not documented")>>
        vitals_text ==
            IF lv # <<>>
            THEN [i \in 1..Len(lv) |->
                    Lit("- ") \o VitalTypeText(lv[i].vital_type) \o Lit(": ")
                    \o ReadingText(lv[i].reading)]
            ELSE <<Lit("Not documented")>>
        abnormal_text ==
            IF abnormal # <<>> THEN [i \in 1..Len(abnormal) |-> Lit("- ") \o abnormal[i]]
            ELSE <<Lit("None flagged")>>
        wound_text ==
            IF wounds # <<>>
            THEN [i \in 1..Len(wounds) |->
                    Lit("- ") \o wounds[i].description \o Lit(" | ")
                    \o wounds[i].location \o Lit(" | onset ")
                    \o TemplateFmtDate(wounds[i].onset_date) \o Lit(" | last ")
                    \o TemplateFmtDate(wounds[i].visit_date)]
            ELSE <<Lit("Not documented")>>
        adl_text ==
            IF adl # <<>>
            THEN [i \in 1..Len(adl) |-> Lit("- ") \o Lit(adl[i].k) \o Lit(": ") \o adl[i].v]
            ELSE <<Lit("Not documented")>>
        notes_text ==
            IF notes # <<>>
            THEN [i \in 1..Len(notes) |->
                    Lit("- [") \o TemplateFmtDate(notes[i].date) \o Lit("] ")
                    \o notes[i].type \o Lit(":") \o Chars(" ", 1) \o notes[i].snippet]
            ELSE <<Lit("Not documented")>>
    IN  << <<>>,
           Lit("1. Patient Overview"),
           Lit("Patient ID: ") \o IntText(si.patient_id),
           Lit("Episode ID: ") \o EpisodeText(si.episode_id),
           <<>>,
           Lit("2. Active Diagnoses") >>
        \o dx_text
        \o << <<>>, Lit("3. Current Medications") >>
        \o meds_text
        \o << <<>>, Lit("4. Recent Vitals"),
              Lit("Latest date: ") \o TemplateFmtDate(vitals.latest_date) >>
        \o vitals_text
        \o << <<>>, Lit("Abnormal:") >>
        \o abnormal_text
        \o << <<>>, Lit("5. Wound Summary") >>
        \o wound_text
        \o << <<>>, Lit("6. Functional / ADL Status (OASIS)"),
              Lit("Assessment date: ") \o TemplateFmtDate(oasis.latest_date),
              Lit("Assessment type: ") \o oasis_type >>
        \o adl_text
        \o << <<>>, Lit("7. Recent Notes") >>
        \o notes_text
        \o << <<>> >>

\* the mutant: the template without its final strip()
TemplateUnstripped(si) == Join(NL, TemplateLines(si))

_template_generate(si) == Strip(Join(NL, TemplateLines(si)))

(***************************************************************************)
(* prompt_builder.py                                                       *)
(***************************************************************************)
\* the mutant: a missing date rendered as the empty string
FmtDateBlank(dt) == IF dt = NULL THEN <<>> ELSE DateText(dt)

\* prompt_builder._fmt_date
_fmt_date(dt) == IF dt = NULL THEN Lit("N/A") ELSE DateText(dt)

\* the rules block that opens the prompt
PromptPreamble ==
    << Lit("You are a home health clinician. Your task is to generate an evidence-based clinical summary from the provided EHR data."),
       <<>>,
       Lit("IMPORTANT RULES:"),
       Lit("- Use ONLY the data provided below. Do NOT invent anything."),
       Lit("- Every claim MUST include a citation bracket in this format:"),
       Chars(" ", 2) \o Lit("[Source: <file>.csv | <key>=<value>]"),
       Chars(" ", 2) \o Lit("Examples:"),
       Chars(" ", 2) \o Lit("- Blood pressure elevated (145/88 on 2023-10-01) ")
           \o Lit("[Source: vitals.csv | visit_date=2023-10-01]"),
       Chars(" ", 2) \o Lit("- OASIS shows chairfast status ")
           \o Lit("[Source: oasis.csv | assessment_date=2025-12-03]"),
       Chars(" ", 2) \o Lit("- Pressure ulcer stage III ")
           \o Lit("[Source: wounds.csv | visit_date=2026-01-08]"),
       Lit("- If something is missing, say \"Not documented\" AND still include the relevant source file citation."),
       Lit("- If you describe a trend, reference the involved dates."),
       <<>> >>

\* the output format and rules that close the prompt
PromptTrailer ==
    << <<>>,
       Lit("========================"),
       Lit("OUTPUT FORMAT"),
       Lit("========================"),
       Lit("Use the headings EXACTLY as written below, and include citations in every bullet/sentence:"),
       <<>>,
       Lit("1. Patient Overview"),
       Lit("2. Primary Diagnoses"),
       Lit("3. Recent Vital Signs & Trends"),
       Lit("4. Active Wounds & Wound Care Status"),
       Lit("5. Current Medications / Adherence Notes"),
       Lit("6. Functional Status (OASIS)"),
       Lit("7. Recent Clinician Notes (key events)"),
       Lit("8. Risks / Red Flags"),
       Lit("9. Recommended Care Focus (next 7 days)"),
       <<>>,
       Lit("Keep it concise, clinically meaningful, and verifiable."),
       <<>>,
       Lit("Rules:"),
       Lit("- Do not hallucinate."),
       Lit("- If data is missing, say \"Not documented\"."),
       Lit("- Be concise but clinically meaningful."),
       Lit("- Highlight wound care, BP/oxygen abnormalities if present, immobility risks, infection risk, and dependence in ADLs."),
       <<>> >>

\* the lines of the prompt before the final strip()
PromptLines(si) ==
    LET dx == si.diagnoses_summary
        meds == si.medications_summary
        vitals == si.vitals_summary
        wounds == si.wounds_summary
        oasis == si.oasis_summary
        notes == si.note_highlights
        latest_vitals == vitals.latest_vitals
        abnormal == vitals.abnormal
        adl == oasis.adl
        oasis_date == _fmt_date(oasis.latest_date)
        oasis_type == IF oasis.assessment_type = NoneText \/ oasis.assessment_type = <<>>
                      THEN Lit("N/A") ELSE oasis.assessment_type
        oasis_cite == Lit("[Source: oasis.csv | assessment_date=") \o oasis_date \o Lit("]")
        dx_text ==
            IF dx # <<>>
            THEN [i \in 1..Len(dx) |->
                    Lit("- ") \o dx[i] \o Chars(" ", 1) \o Lit("[Source: diagnoses.csv]")]
            ELSE <<Lit("- Not documented ") \o Lit("[Source: diagnoses.csv]")>>
        meds_text ==
            IF meds # <<>>
            THEN [i \in 1..Len(meds) |->
                    Lit("- ") \o meds[i].name \o Lit(" | ") \o meds[i].frequency
                    \o Lit(" | ") \o meds[i].classification \o Lit(" | Reason: ")
                    \o meds[i].reason \o Chars(" ", 1) \o Lit("[Source: medications.csv]")]
            ELSE <<Lit("- Not documented ") \o Lit("[Source: medications.csv]")>>
        vitals_text ==
            IF latest_vitals # <<>>
            THEN [i \in 1..Len(latest_vitals) |->
                    Lit("- ") \o VitalTypeText(latest_vitals[i].vital_type) \o Lit(": ")
                    \o ReadingText(latest_vitals[i].reading) \o Lit(" (date: ")
                    \o _fmt_date(latest_vitals[i].date) \o Lit(") ")
                    \o Lit("[Source: vitals.csv | visit_date=")
                    \o _fmt_date(latest_vitals[i].date) \o Lit("]")]
            ELSE <<Lit("- Not documented ") \o Lit("[Source: vitals.csv]")>>
        abnormal_text ==
            IF abnormal # <<>>
            THEN [i \in 1..Len(abnormal) |->
                    Lit("- ") \o abnormal[i] \o Chars(" ", 1) \o Lit("[Source: vitals.csv]")]
            ELSE <<Lit("- None flagged ") \o Lit("[Source: vitals.csv]")>>
        notes_text ==
            IF notes # <<>>
            THEN [i \in 1..Len(notes) |->
                    Lit("- [") \o _fmt_date(notes[i].date) \o Lit("] ") \o notes[i].type
                    \o Lit(": ") \o notes[i].snippet \o Chars(" ", 1)
                    \o Lit("[Source: notes.csv | note_date=") \o _fmt_date(notes[i].date)
                    \o Lit("]")]
            ELSE <<Lit("- Not documented ") \o Lit("[Source: notes.csv]")>>
        wounds_text ==
            IF wounds # <<>>
            THEN [i \in 1..Len(wounds) |->
                    Lit("- ") \o wounds[i].description \o Lit(" | Location: ")
                    \o wounds[i].location \o Lit(" | Onset: ")
                    \o _fmt_date(wounds[i].onset_date) \o Lit(" | Visit: ")
                    \o _fmt_date(wounds[i].visit_date) \o Chars(" ", 1)
                    \o Lit("[Source: wounds.csv | visit_date=")
                    \o _fmt_date(wounds[i].visit_date) \o Lit("]")]
            ELSE <<Lit("- No wounds documented ") \o Lit("[Source: wounds.csv]")>>
        adl_text ==
            IF adl # <<>>
            THEN [i \in 1..Len(adl) |->
                    Lit("- ") \o Lit(adl[i].k) \o Lit(": ") \o adl[i].v \o Chars(" ", 1)
                    \o oasis_cite]
            ELSE <<Lit("- Not documented ") \o oasis_cite>>
    IN  << <<>> >>
        \o PromptPreamble
        \o << Lit("Patient ID: ") \o IntText(si.patient_id),
              Lit("Episode ID: ") \o EpisodeText(si.episode_id),
              <<>>,
              Lit("========================"),
              Lit("PATIENT EHR DATA"),
              Lit("========================"),
              <<>>,
              Lit("1) Diagnoses:") >>
        \o dx_text
        \o << <<>>, Lit("2) Medications:") >>
        \o meds_text
        \o << <<>>,
              Lit("3) Vitals (latest vitals date overall: ")
                  \o _fmt_date(vitals.latest_date) \o Lit("):") >>
        \o vitals_text
        \o << <<>>, Lit("Abnormal vitals:") >>
        \o abnormal_text
        \o << <<>>, Lit("4) Wounds:") >>
        \o wounds_text
        \o << <<>>,
              Lit("5) Functional Status (OASIS):"),
              Lit("Assessment Date: ") \o oasis_date \o Chars(" ", 1) \o oasis_cite,
              Lit("Assessment Type: ") \o oasis_type \o Chars(" ", 1) \o oasis_cite,
              Lit("ADL / Mobility:") >>
        \o adl_text
        \o << <<>>, Lit("6) Recent Notes:") >>
        \o notes_text
        \o PromptTrailer

\* the mutant: the lines of the prompt joined with blanks
PromptOnOneLine(si) == Strip(Join(Chars(" ", 1), PromptLines(si)))

build_prompt(si) == Strip(Join(NL, PromptLines(si)))

(***************************************************************************)
(* The resolver called directly on a store.                                *)
(***************************************************************************)
Patients == {1, 2}
Episodes == 1..MaxEpisode
Dates == 1..MaxDate

TextColumns ==
    {"diagnosis_code", "diagnosis_description", "medication_name", "frequency",
     "classification", "reason", "note_type", "note_text", "location", "description",
     "assessment_type", "grooming", "bathing", "toilet_transfer", "transfer",
     "ambulation"}

\* an empty cell of a column: NaN in a text column, NA / NaT elsewhere
Missing(c) == IF c \in TextColumns THEN NaN ELSE NULL

ResolveRows(t) ==
    LET dateCols == Columns(t) \cap {"visit_date", "note_date", "assessment_date"}
        eps == IF "episode_id" \in Columns(t) THEN Episodes \cup {NULL} ELSE {NULL}
        dates == IF dateCols # {} THEN Dates \cup {NULL} ELSE {NULL}
        \* of the second patient, the row that would win every comparison
        keys == { k \in Patients \X eps \X dates :
                    k[1] = 1 \/ (k[2] = Max(eps) /\ k[3] = Max(dates)) }
    IN  { [c \in Columns(t) |->
              IF c = "patient_id" THEN k[1]
              ELSE IF c = "episode_id" THEN k[2]
              ELSE IF c \in dateCols THEN k[3]
              ELSE Missing(c)] : k \in keys }

\* one more row in one of the CSV files, before the server loads them
WriteRow(t, r, maxRows) ==
    /\ pc = "idle"
    /\ out.kind = "none"
    /\ TotalRows(tables) < maxRows
    /\ Appendable(tables, t)
    /\ tables' = [tables EXCEPT ![t].rows =
                     Append(@, [c \in tables[t].cols |-> r[c]])]
    /\ UNCHANGED <<sortTies, env, pc, req, resp, llm, out>>

NoReq == [entry |-> "none"]
NoResp == [kind |-> "none"]
NoOut == [kind |-> "none"]
NoLlm == [calls |-> <<>>]
NoReply == [kind |-> "none"]

InitCommon ==
    /\ sortTies \in {"first", "last"}
    /\ pc = "idle"
    /\ req = NoReq
    /\ resp = NoResp
    /\ llm = NoLlm
    /\ out = NoOut

InitResolve ==
    /\ InitCommon
    /\ env = [api_key |-> TRUE]
    /\ \E b \in BOOLEAN : tables = EmptyStore(b)

WriteRowResolve ==
    \E t \in SeqToSet(CSV_FILES) : \E r \in ResolveRows(t) : WriteRow(t, r, MaxRowsResolve)

\* get_patient_bundle(tables, patient_id) called on the loaded store
Resolve ==
    /\ pc = "idle"
    /\ out.kind = "none"
    /\ \E p \in Patients :
         out' = [kind |-> "bundle",
                 bundle |-> get_patient_bundle(tables, p, sortTies)]
    /\ UNCHANGED <<tables, sortTies, env, pc, req, resp, llm>>

NextResolve == WriteRowResolve \/ Resolve

SpecResolve == InitResolve /\ [][NextResolve]_vars

(***************************************************************************)
(* C1: get_latest_episode_id returns the episode of a row holding the      *)
(* maximum date among the patient's rows of the four date tables that have *)
(* both date and episode_id; max(episode_ids) when there is no such row;   *)
(* None when the patient has no episode id.                                *)
(***************************************************************************)
\* the cell of a row, absent when the table has no such column
Cell(r, c) == IF c \in DOMAIN r THEN r[c] ELSE NULL

\* the (date, episode) pairs of the patient's rows with both cells present
DatedPairs(tbls, p) ==
    UNION { { <<Cell(r, DATE_PRIORITY[i].date_col), Cell(r, "episode_id")>> :
                r \in { x \in SeqToSet(tbls[DATE_PRIORITY[i].table].rows) :
                          /\ Cell(x, "patient_id") = p
                          /\ Cell(x, "episode_id") # NULL
                          /\ Cell(x, DATE_PRIORITY[i].date_col) # NULL } } :
            i \in 1..Len(DATE_PRIORITY) }

AllEpisodes(tbls, p) ==
    UNION { { Cell(r, "episode_id") :
                r \in { x \in SeqToSet(tbls[t].rows) :
                          Cell(x, "patient_id") = p /\ Cell(x, "episode_id") # NULL } } :
            t \in DOMAIN tbls }

C1_LatestEpisode ==
    out.kind = "bundle" =>
        LET p == out.bundle.patient_id
            latest == out.bundle.latest_episode_id
            pairs == DatedPairs(tables, p)
            eps == AllEpisodes(tables, p)
        IN  /\ SeqToSet(out.bundle.episode_ids) = eps
            /\ eps = {} => latest = NULL
            /\ (eps # {} /\ pairs = {}) => latest = Max(eps)
            /\ (eps # {} /\ pairs # {}) =>
                  \E pr \in pairs :
                      /\ pr[2] = latest
                      /\ \A q \in pairs : q[1] <= pr[1]

\* a patient with two dated rows of different dates and episodes was resolved
C1_Witness ==
    /\ out.kind = "bundle"
    /\ \E a, b \in DatedPairs(tables, out.bundle.patient_id) :
          a[1] < b[1] /\ a[2] # b[2] /\ out.bundle.latest_episode_id = b[2]

(***************************************************************************)
(* The summarizers called directly on one table.                           *)
(***************************************************************************)
Word(c) == Chars(c, 1)

\* leading blanks, a body of c characters, trailing blanks
NoteText(l, c, t) ==
    IF c = 0 THEN Chars(" ", l + t)
    ELSE Chars(" ", l) \o Chars("x", c) \o Chars(" ", t)

NoteTexts ==
    {NaN} \cup { NoteText(lt[1], c, lt[2]) :
                   lt \in {<<0, 0>>, <<1, 0>>, <<0, 2>>},
                   c \in {0, SnippetLimit - 1, SnippetLimit, SnippetLimit + 1} }

\* the dates of the rows handed to a summarizer
SumDates == {1, 2}

\* reading, min_value, max_value of a vitals row
VitalReadings ==
    { <<NULL, 3, 1>>, <<2, 3, NULL>>, <<2, NULL, 1>>,
      <<2, 3, 1>>, <<2, 2, 2>>, <<2, 1, 3>> }

SumRows(t) ==
    CASE t = "diagnoses" ->
           { [c \in Columns(t) |->
                CASE c = "patient_id" -> 1
                  [] c = "diagnosis_code" -> code
                  [] c = "diagnosis_description" -> desc] :
               code \in {NaN, Word("x"), Word("y")},
               desc \in {NaN, Word("x"), Word(" ") \o Word("x"), Word("y")} }
      [] t = "medications" ->
           { [c \in Columns(t) |->
                CASE c \in {"patient_id", "episode_id"} -> 1
                  [] c = "medication_name" -> name
                  [] c = "frequency" -> freq
                  [] c = "classification" -> Word("x")
                  [] c = "reason" -> reason] :
               name \in {NaN, Word(" "), Word("x"), Word("x") \o Word(" "), Word("y")},
               freq \in {Word("x"), Word("y")},
               reason \in {NaN, Word("x")} }
      [] t = "vitals" ->
           { [c \in Columns(t) |->
                CASE c \in {"patient_id", "episode_id"} -> 1
                  [] c = "visit_date" -> d
                  [] c = "vital_type" -> vt
                  [] c = "reading" -> rmm[1]
                  [] c = "min_value" -> rmm[2]
                  [] c = "max_value" -> rmm[3]] :
               d \in SumDates \cup {NULL}, vt \in {1, 2}, rmm \in VitalReadings }
      [] t = "notes" ->
           { [c \in Columns(t) |->
                CASE c \in {"patient_id", "episode_id"} -> 1
                  [] c = "note_date" -> d
                  [] c = "note_type" -> Word("x")
                  [] c = "note_text" -> text] :
               d \in {1, NULL}, text \in NoteTexts }
      [] t = "wounds" ->
           { [c \in Columns(t) |->
                CASE c \in {"patient_id", "episode_id"} -> 1
                  [] c = "location" -> Word("x")
                  [] c = "description" -> desc
                  [] c = "onset_date" -> NULL
                  [] c = "visit_date" -> d] :
               d \in SumDates \cup {NULL}, desc \in {Word("x"), Word("y")} }
      [] t = "oasis" ->
           { [c \in Columns(t) |->
                CASE c \in {"patient_id", "episode_id"} -> 1
                  [] c = "assessment_date" -> d
                  [] c = "assessment_type" -> ty
                  [] c = "grooming" -> g
                  [] c \in {"bathing", "toilet_transfer", "transfer"} -> Word("x")
                  [] c = "ambulation" -> NaN] :
               d \in SumDates \cup {NULL}, ty \in {NaN, Word("x")},
               g \in {Word("x"), Word("y")} }

InitSum ==
    /\ InitCommon
    /\ env = [api_key |-> TRUE]
    /\ tables = EmptyStore(TRUE)

\* the table under test is the only one with rows
OnlyTable(t) == TotalRows(tables) = Len(tables[t].rows)

WriteRowSum ==
    /\ \E t \in SeqToSet(CSV_FILES) : \E r \in SumRows(t) : WriteRow(t, r, MaxRowsSum)
    /\ \E t \in SeqToSet(CSV_FILES) : TotalRows(tables') = Len(tables'[t].rows)

Summarized(t, result) ==
    /\ pc = "idle"
    /\ out.kind = "none"
    /\ OnlyTable(t)
    /\ out' = [kind |-> t, result |-> result]
    /\ UNCHANGED <<tables, sortTies, env, pc, req, resp, llm>>

SumDiagnoses == Summarized("diagnoses", summarize_diagnoses(tables["diagnoses"]))

SumMedications == Summarized("medications", summarize_medications(tables["medications"]))

SumVitals == Summarized("vitals", summarize_vitals(tables["vitals"], sortTies))

SumNotes == Summarized("notes", summarize_notes(tables["notes"], TopNotes, sortTies))

SumWounds == Summarized("wounds", summarize_wounds(tables["wounds"], sortTies))

SumOasis == Summarized("oasis", summarize_oasis(tables["oasis"], sortTies))

NextSum ==
    \/ WriteRowSum
    \/ SumDiagnoses
    \/ SumMedications
    \/ SumVitals
    \/ SumNotes
    \/ SumWounds
    \/ SumOasis

SpecSum == InitSum /\ [][NextSum]_vars

(***************************************************************************)
(* C8: summarize_medications emits no two records with the same (name,     *)
(* frequency, classification, reason), no record with an empty name, and   *)
(* keeps first-occurrence order; summarize_diagnoses emits no two equal     *)
(* strings and keeps first-occurrence order.                               *)
(***************************************************************************)
\* items[k] is what row k yields; the index of the first row that yields x
FirstRow(items, x) ==
    CHOOSE k \in 1..Len(items) :
        /\ x \in SeqToSet(items[k])
        /\ \A j \in 1..(k - 1) : x \notin SeqToSet(items[j])

InFirstOccurrenceOrder(res, items) ==
    /\ \A i \in 1..Len(res) : \E k \in 1..Len(items) : res[i] \in SeqToSet(items[k])
    /\ \A k \in 1..Len(items) : SeqToSet(items[k]) \subseteq SeqToSet(res)
    /\ \A i, j \in 1..Len(res) :
          i < j => FirstRow(items, res[i]) < FirstRow(items, res[j])

C8_NoDuplicates ==
    /\ out.kind = "medications" =>
          LET res == out.result
              rows == tables["medications"].rows
              meds == [k \in 1..Len(rows) |->
                         IF MedicationOf(rows[k]).name = <<>> THEN <<>>
                         ELSE <<MedicationOf(rows[k])>>]
          IN  /\ \A i, j \in 1..Len(res) :
                    i # j => <<res[i].name, res[i].frequency,
                               res[i].classification, res[i].reason>>
                             # <<res[j].name, res[j].frequency,
                                 res[j].classification, res[j].reason>>
              /\ \A i \in 1..Len(res) : res[i].name # <<>>
              /\ InFirstOccurrenceOrder(res, meds)
    /\ out.kind = "diagnoses" =>
          LET res == out.result
              rows == tables["diagnoses"].rows
              dx == [k \in 1..Len(rows) |->
                       DiagnosisEntry(rows[k], tables["diagnoses"].cols)]
          IN  /\ \A i, j \in 1..Len(res) : i # j => res[i] # res[j]
              /\ InFirstOccurrenceOrder(res, dx)

\* two diagnoses rows that differ only by a leading blank were merged into one string
C8_Witness ==
    /\ out.kind = "diagnoses"
    /\ Len(tables["diagnoses"].rows) = 2
    /\ tables["diagnoses"].rows[1] # tables["diagnoses"].rows[2]
    /\ Len(out.result) = 1
    /\ out.result[1] = Word("x") \o Lit(" (") \o Word("y") \o Lit(")")

(***************************************************************************)
(* C9: for each vital type's latest row, "below min" is flagged exactly    *)
(* when reading and min_value are present and reading < min_value, "above  *)
(* max" exactly when reading and max_value are present and reading >       *)
(* max_value; the flags are independent, a reading equal to a bound is not *)
(* flagged, and a missing reading, min or max never flags.                 *)
(***************************************************************************)
FlagText(e, what, bound) ==
    VitalTypeText(e.vital_type) \o Lit(": ") \o FloatText(e.reading)
        \o Lit(what) \o FloatText(bound) \o Lit(")")

\* some abnormal string of vital type vt carries the marker
HasFlag(abnormal, vt, what) ==
    \E k \in 1..Len(abnormal) :
        abnormal[k][1] = VitalTypeText(vt)[1] /\ Lit(what)[1] \in SeqToSet(abnormal[k])

C9_AbnormalFlags ==
    (out.kind = "vitals" /\ out.result.err = "none") =>
        LET res == out.result
            rows == tables["vitals"].rows
            DatedOfType(vt) ==
                {r \in SeqToSet(rows) : r.vital_type = vt /\ r.visit_date # NULL}
        IN  /\ \A i \in 1..Len(res.latest_vitals) :
                  LET e == res.latest_vitals[i]
                      below == e.reading # NULL /\ e.min # NULL /\ e.reading < e.min
                      above == e.reading # NULL /\ e.max # NULL /\ e.reading > e.max
                  IN  \* the entry is a latest row of its type
                      /\ \E r \in DatedOfType(e.vital_type) :
                            /\ \A q \in DatedOfType(e.vital_type) :
                                  q.visit_date <= r.visit_date
                            /\ <<r.visit_date, r.reading, r.min_value, r.max_value>>
                               = <<e.date, e.reading, e.min, e.max>>
                      /\ HasFlag(res.abnormal, e.vital_type, " (below min ") <=> below
                      /\ HasFlag(res.abnormal, e.vital_type, " (above max ") <=> above
                      /\ below => \E k \in 1..Len(res.abnormal) :
                            res.abnormal[k] = FlagText(e, " (below min ", e.min)
                      /\ above => \E k \in 1..Len(res.abnormal) :
                            res.abnormal[k] = FlagText(e, " (above max ", e.max)
            /\ Len(res.abnormal) =
                  Cardinality({<<i, w>> \in (1..Len(res.latest_vitals))
                                          \X {" (below min ", " (above max "} :
                      HasFlag(res.abnormal, res.latest_vitals[i].vital_type, w)})

\* both flags fired for one vital type, and another type's reading on its bound did not
C9_Witness ==
    /\ out.kind = "vitals"
    /\ out.result.err = "none"
    /\ Len(out.result.latest_vitals) = 2
    /\ Len(out.result.abnormal) = 2
    /\ HasFlag(out.result.abnormal, 1, " (below min ")
    /\ HasFlag(out.result.abnormal, 1, " (above max ")
    /\ out.result.latest_vitals[2].reading = out.result.latest_vitals[2].min

(***************************************************************************)
(* C10: the snippet of an emitted note is the first 300 characters of the  *)
(* note text followed by an ellipsis marker when the text is longer than   *)
(* 300 characters, and the note text unchanged otherwise, also for texts   *)
(* that begin or end with whitespace.                                      *)
(***************************************************************************)
\* the rows behind the emitted notes, in emission order
EmittedNoteRows == _top_n_recent(tables["notes"], "note_date", TopNotes, sortTies)

C10_SnippetOfRawText ==
    out.kind = "notes" =>
        \A i \in 1..Len(out.result) :
            LET text == EmittedNoteRows[i].note_text IN
            text # NaN =>
                out.result[i].snippet =
                    IF TLen(text) > SnippetLimit
                    THEN Take(text, SnippetLimit) \o Lit("...")
                    ELSE text

(***************************************************************************)
(* C10 as amended: the snippet is taken from the note text with leading    *)
(* and trailing whitespace removed (a missing text counts as empty): its   *)
(* first 300 characters and an ellipsis marker when the stripped text is   *)
(* longer than 300 characters, the stripped text itself otherwise.         *)
(***************************************************************************)
C10_SnippetOfStrippedText ==
    out.kind = "notes" =>
        /\ Len(out.result) = Len(EmittedNoteRows)
        /\ \A i \in 1..Len(out.result) :
            LET raw == EmittedNoteRows[i].note_text
                text == IF raw = NaN THEN <<>> ELSE Strip(raw)
                snippet == out.result[i].snippet
            IN  /\ Take(snippet, SnippetLimit) = Take(text, SnippetLimit)
                /\ TLen(text) <= SnippetLimit => snippet = text
                /\ TLen(text) > SnippetLimit =>
                      /\ TLen(snippet) = SnippetLimit + 3
                      /\ snippet[Len(snippet)] = Lit("...")[1]

\* a note whose text starts with a blank and is longer than 300 characters stripped
C10_Witness ==
    /\ out.kind = "notes"
    /\ \E i \in 1..Len(out.result) :
          /\ EmittedNoteRows[i].note_text = NoteText(1, SnippetLimit + 1, 0)
          /\ out.result[i].snippet = Chars("x", SnippetLimit) \o Lit("...")

(***************************************************************************)
(* llm_client.py, summary_generator.generate_summary and the endpoint of   *)
(* main.py, on a loaded store.                                             *)
(***************************************************************************)
MaxRows == 2
PreviewLimit == 500

Models == {"gpt-4o-mini"}

\* a cell of a row written for a request: patient p, episode e, date d
PipeCell(c, p, e, d) ==
    CASE c = "patient_id" -> p
      [] c = "episode_id" -> e
      [] c \in {"visit_date", "note_date", "assessment_date"} -> d
      [] c \in {"onset_date", "max_value"} -> NULL
      [] c = "vital_type" -> 1
      [] c = "reading" -> 2
      [] c = "min_value" -> 3
      [] c = "note_text" -> NoteText(1, 1, 0)
      [] c \in {"reason", "assessment_type", "ambulation"} -> NaN
      [] c \in {"diagnosis_description", "frequency", "description"} -> Word("y")
      [] OTHER -> Word("x")

PipeRows(t) ==
    { [c \in Columns(t) |-> PipeCell(c, p, e, d)] :
        p \in (IF t = "diagnoses" THEN Patients ELSE {1}),
        e \in (IF t = "vitals" THEN {1, 2} ELSE {1}),
        d \in (IF t \in {"vitals", "oasis"} THEN {1, NULL} ELSE {1}) }

\* the phrases call_llm looks for in the lower-cased message of an error
Phrases == {"temperature", "unsupported", "only the default", "does not support"}

\* the messages of the backend's errors, by the phrases they hold
Messages ==
    { {}, {"temperature"}, {"unsupported", "only the default", "does not support"},
      {"temperature", "unsupported"}, {"temperature", "only the default"},
      {"temperature", "does not support"} }

\* an exception: its class and, for str(e), the phrases its message holds
Exc(type, words) == [type |-> type, words |-> words]

\* what the backend can do with a chat.completions.create call
BackendOutcomes ==
    { [kind |-> "content", content |-> c] :
        c \in {Lit("summary"), Chars(" ", 1) \o Lit("summary") \o NL} }
    \cup { [kind |-> "content_none"] }
    \cup { [kind |-> "error", exc |-> Exc("APIError", w)] : w \in Messages }

\* the mutant: every failure of attempt 1 is retried
RetryAlways(exc) == exc.words \subseteq Phrases

\* llm_client.py:60, the test that decides the retry
RetryWithoutTemperature(exc) ==
    /\ "temperature" \in exc.words
    /\ \/ "unsupported" \in exc.words
       \/ "only the default" \in exc.words
       \/ "does not support" \in exc.words

\* resp.choices[0].message.content.strip() on what the backend returned
ReadContent(reply) ==
    CASE reply.kind = "content" -> [ok |-> TRUE, text |-> Strip(reply.content)]
      [] reply.kind = "content_none" -> [ok |-> FALSE, exc |-> Exc("AttributeError", {})]
      [] reply.kind = "error" -> [ok |-> FALSE, exc |-> reply.exc]

\* {**a, **b}
Merge(a, b) ==
    [k \in DOMAIN a \cup DOMAIN b |-> IF k \in DOMAIN b THEN b[k] ELSE a[k]]

NotFoundText(patient_id) ==
    Lit("No data found for patient_id=") \o IntText(patient_id) \o Lit(".")

\* the detail of the endpoint's HTTPException
NotFoundDetail(patient_id) == Lit("No data found for patient_id=") \o IntText(patient_id)

\* summary_generator.py:129-133 on the loaded store
SummaryInputs(tbls, patient_id, ties) ==
    LET bundle == get_patient_bundle(tbls, patient_id, ties)
        episode_id == bundle.latest_episode_id
        ep_bundle == get_episode_bundle(tbls, patient_id, episode_id, ties)
    IN  prepare_summary_inputs(ep_bundle, patient_id, episode_id, ties)

\* summary_generator.py:137-142
Debug(r, episode_id) ==
    [patient_id |-> r.patient_id, episode_id |-> episode_id,
     use_llm |-> r.use_llm, model |-> r.model]

\* summary_generator.py:150-157, the except branch
Fallback(r, si, prompt, exc) ==
    [kind |-> "returned",
     text |-> _template_generate(si),
     debug |-> Merge(Debug(r, si.episode_id),
                     [llm_status |-> "failed_fallback_used",
                      error |-> exc,
                      prompt_preview |-> Take(prompt, PreviewLimit)])]

\* summary_generator.py:148
Success(r, si, text) ==
    [kind |-> "returned",
     text |-> text,
     debug |-> Merge(Debug(r, si.episode_id), [llm_status |-> "success"])]

\* summary_generator.py:160
TemplateOnly(r, si) ==
    [kind |-> "returned",
     text |-> _template_generate(si),
     debug |-> Merge(Debug(r, si.episode_id), [llm_status |-> "skipped"])]

\* the endpoint wraps what generate_summary returned; an exception that
\* leaves generate_summary leaves the endpoint too (the server answers 500)
Deliver(r, result) ==
    IF r.entry = "direct" THEN result
    ELSE IF result.kind = "raised" THEN [kind |-> "http", status |-> 500, exc |-> result.exc]
    ELSE [kind |-> "http", status |-> 200, patient_id |-> r.patient_id,
          text |-> result.text, debug |-> result.debug]

\* generate_summary up to its return, its raise or its first backend call
GenerateStart(r) ==
    IF ~patient_exists(tables, r.patient_id)
    THEN [kind |-> "returned",
          text |-> NotFoundText(r.patient_id),
          debug |-> [patient_id |-> r.patient_id, found |-> FALSE]]
    ELSE
      LET si == SummaryInputs(tables, r.patient_id, sortTies) IN
      IF si.err # "none" THEN [kind |-> "raised", exc |-> Exc(si.err, {})]
      ELSE IF ~r.use_llm THEN TemplateOnly(r, si)
      \* call_llm without OPENAI_API_KEY raises before any backend call
      ELSE IF ~env.api_key
      THEN Fallback(r, si, build_prompt(si), Exc("RuntimeError", {}))
      ELSE [kind |-> "calling", summary_inputs |-> si, prompt |-> build_prompt(si)]

\* one backend call of the request: the payload and, once known, its outcome
Call(r, temperature) ==
    [model |-> r.model, temperature |-> temperature, outcome |-> NoReply]

Init ==
    /\ InitCommon
    /\ env \in {[api_key |-> b] : b \in BOOLEAN}
    /\ tables = EmptyStore(TRUE)

WriteRowPipe ==
    \E t \in SeqToSet(CSV_FILES) : \E r \in PipeRows(t) : WriteRow(t, r, MaxRows)

\* a request r enters generate_summary; while a backend call is in flight
\* the request keeps the locals summary_inputs and prompt
Generate(r, trace) ==
    \E g \in {GenerateStart(r)} :
    /\ out' = [kind |-> "trace", trace |-> Append(trace, "generate_summary")]
    /\ IF g.kind = "calling"
       THEN /\ pc' = "call1"
            /\ req' = Merge(r, [summary_inputs |-> g.summary_inputs,
                                prompt |-> g.prompt])
            /\ llm' = [calls |-> <<Call(r, TRUE)>>]
            /\ resp' = NoResp
       ELSE /\ pc' = "done"
            /\ req' = r
            /\ llm' = NoLlm
            /\ resp' = Deliver(r, g)
    /\ UNCHANGED <<tables, sortTies, env>>

Requests(entry) ==
    { [entry |-> entry, patient_id |-> p, use_llm |-> u, model |-> m] :
        p \in Patients, u \in BOOLEAN, m \in Models }

\* generate_summary(tables, patient_id, use_llm, model) called by a program
DirectCall ==
    /\ pc \in {"idle", "done"}
    /\ \E r \in Requests("direct") : Generate(r, <<>>)

\* POST /generate_summary
HttpRequest ==
    /\ pc \in {"idle", "done"}
    /\ \E r \in Requests("http") :
         IF ~patient_exists(tables, r.patient_id)
         THEN /\ req' = r
              /\ out' = [kind |-> "trace", trace |-> <<"generate_summary_endpoint">>]
              /\ pc' = "done"
              /\ llm' = NoLlm
              /\ resp' = [kind |-> "http", status |-> 404,
                          detail |-> NotFoundDetail(r.patient_id)]
              /\ UNCHANGED <<tables, sortTies, env>>
         ELSE Generate(r, <<"generate_summary_endpoint">>)

\* the backend answers the call in flight, or fails it
BackendAnswer ==
    /\ pc \in {"call1", "call2"}
    /\ llm.calls[Len(llm.calls)].outcome = NoReply
    /\ \E o \in BackendOutcomes :
         llm' = [llm EXCEPT !.calls[Len(llm.calls)].outcome = o]
    /\ UNCHANGED <<tables, sortTies, env, pc, req, resp, out>>

Finish(result) ==
    /\ pc' = "done"
    /\ resp' = Deliver(req, result)
    /\ UNCHANGED llm

\* llm_client.py:48-65, attempt 1 has come back
HandleReply1 ==
    /\ pc = "call1"
    /\ llm.calls[1].outcome # NoReply
    /\ \E rd \in {ReadContent(llm.calls[1].outcome)} :
           IF rd.ok THEN Finish(Success(req, req.summary_inputs, rd.text))
           ELSE IF RetryWithoutTemperature(rd.exc)
           THEN /\ pc' = "call2"
                /\ llm' = [llm EXCEPT !.calls = Append(@, Call(req, FALSE))]
                /\ UNCHANGED resp
           ELSE Finish(Fallback(req, req.summary_inputs, req.prompt, rd.exc))
    /\ UNCHANGED <<tables, sortTies, env, req, out>>

\* llm_client.py:61-65, the retry has come back
HandleReply2 ==
    /\ pc = "call2"
    /\ llm.calls[2].outcome # NoReply
    /\ \E rd \in {ReadContent(llm.calls[2].outcome)} :
           IF rd.ok THEN Finish(Success(req, req.summary_inputs, rd.text))
           ELSE Finish(Fallback(req, req.summary_inputs, req.prompt, rd.exc))
    /\ UNCHANGED <<tables, sortTies, env, req, out>>

Next ==
    \/ WriteRowPipe
    \/ DirectCall
    \/ HttpRequest
    \/ BackendAnswer
    \/ HandleReply1
    \/ HandleReply2

Spec == Init /\ [][Next]_vars

\* the program's own steps are taken; nothing obliges the backend to answer
FairSpec == Spec /\ WF_vars(HandleReply1) /\ WF_vars(HandleReply2)

(***************************************************************************)
(* Claims about a request.                                                 *)
(***************************************************************************)
\* some row of some table carries the patient id
Present(tbls, patient_id) ==
    \E t \in DOMAIN tbls :
        \E i \in 1..Len(tbls[t].rows) : Cell(tbls[t].rows[i], "patient_id") = patient_id

\* the request has ended with a (text, debug) response
HasResult == resp.kind = "returned" \/ (resp.kind = "http" /\ resp.status = 200)

\* the request has ended with an exception at its caller
HasRaised == resp.kind = "raised" \/ (resp.kind = "http" /\ resp.status = 500)

StatusIs(status) ==
    /\ HasResult
    /\ "llm_status" \in DOMAIN resp.debug
    /\ resp.debug.llm_status = status

\* the outcome is an error whose message rejects the temperature parameter
TemperatureRejected(o) ==
    /\ o.kind = "error"
    /\ "temperature" \in o.exc.words
    /\ o.exc.words \cap {"unsupported", "only the default", "does not support"} # {}

\* the call failed: the backend raised, or returned no content to strip
CallFailed(o) == o.kind \in {"error", "content_none"}

(***************************************************************************)
(* C2: for a patient id that matches no row of any table, generate_summary *)
(* returns the fixed "No data found" text with a debug of exactly the      *)
(* patient id and found = FALSE, no backend call is made on the request,   *)
(* and the HTTP endpoint answers 404 without calling generate_summary.     *)
(***************************************************************************)
C2_NotFound ==
    /\ pc \in {"call1", "call2"} => Present(tables, req.patient_id)
    /\ (pc = "done" /\ ~Present(tables, req.patient_id)) =>
          /\ llm.calls = <<>>
          /\ req.entry = "direct" =>
                /\ resp.kind = "returned"
                /\ resp.text = Lit("No data found for patient_id=")
                               \o IntText(req.patient_id) \o Lit(".")
                /\ resp.debug = [patient_id |-> req.patient_id, found |-> FALSE]
          /\ req.entry = "http" =>
                /\ resp.kind = "http"
                /\ resp.status = 404
                /\ out.trace = <<"generate_summary_endpoint">>

\* generate_summary was called for a patient absent from a store with rows
C2_Witness ==
    /\ pc = "done"
    /\ req.entry = "direct"
    /\ TotalRows(tables) > 0
    /\ ~Present(tables, req.patient_id)
    /\ resp.kind = "returned"
    /\ resp.debug = [patient_id |-> req.patient_id, found |-> FALSE]

(***************************************************************************)
(* C3: for every present patient with use_llm = TRUE, when every backend   *)
(* call raises, generate_summary returns normally with llm_status          *)
(* "failed_fallback_used", the error, a prompt preview of at most 500      *)
(* characters, and the template rendering as its text.                     *)
(***************************************************************************)
C3_FallbackWhenServiceRaises ==
    (/\ pc = "done"
     /\ Present(tables, req.patient_id)
     /\ req.use_llm
     /\ \A i \in 1..Len(llm.calls) : CallFailed(llm.calls[i].outcome)) =>
        /\ StatusIs("failed_fallback_used")
        /\ "error" \in DOMAIN resp.debug
        /\ "prompt_preview" \in DOMAIN resp.debug
        /\ TLen(resp.debug.prompt_preview) <= 500
        /\ resp.debug.prompt_preview =
              Take(build_prompt(SummaryInputs(tables, req.patient_id, sortTies)), 500)
        /\ resp.text = _template_generate(SummaryInputs(tables, req.patient_id, sortTies))

(***************************************************************************)
(* C4: for every present patient, use_llm = FALSE ends with no backend     *)
(* call, the template text and llm_status "skipped"; use_llm = TRUE with a *)
(* backend that returns ends with llm_status "success" and the backend's   *)
(* text; every response for a found patient reports exactly one of the     *)
(* three llm_status values.                                                *)
(***************************************************************************)
C4_OneStatusPerFoundPatient ==
    (pc = "done" /\ Present(tables, req.patient_id)) =>
        /\ HasResult
        /\ "llm_status" \in DOMAIN resp.debug
        /\ resp.debug.llm_status \in {"success", "failed_fallback_used", "skipped"}
        /\ ~req.use_llm =>
              /\ llm.calls = <<>>
              /\ resp.debug.llm_status = "skipped"
              /\ resp.text = _template_generate(SummaryInputs(tables, req.patient_id, sortTies))
        /\ (llm.calls # <<>> /\ llm.calls[Len(llm.calls)].outcome.kind = "content") =>
              /\ resp.debug.llm_status = "success"
              /\ resp.text = Strip(llm.calls[Len(llm.calls)].outcome.content)

(***************************************************************************)
(* C5: a first backend call that fails with a temperature rejection is     *)
(* retried exactly once without the temperature; no other failure is       *)
(* retried; a request makes at most two backend calls; every failure that  *)
(* leaves call_llm ends in the fallback response, never in an exception at *)
(* the caller.                                                             *)
(***************************************************************************)
C5_RetryOnce ==
    /\ Len(llm.calls) <= 2
    /\ llm.calls # <<>> => llm.calls[1].temperature
    /\ Len(llm.calls) = 2 =>
          /\ TemperatureRejected(llm.calls[1].outcome)
          /\ ~llm.calls[2].temperature
    /\ (pc = "done" /\ Len(llm.calls) = 1) => ~TemperatureRejected(llm.calls[1].outcome)
    /\ (pc = "done" /\ llm.calls # <<>>) =>
          /\ HasResult
          /\ CallFailed(llm.calls[Len(llm.calls)].outcome) =>
                /\ StatusIs("failed_fallback_used")
                /\ resp.debug.error = ReadContent(llm.calls[Len(llm.calls)].outcome).exc
    \* call_llm without an API key raises before the first call
    /\ (pc = "done" /\ HasResult /\ "use_llm" \in DOMAIN resp.debug
        /\ req.use_llm /\ ~env.api_key) =>
          /\ llm.calls = <<>>
          /\ StatusIs("failed_fallback_used")

\* the first call was rejected for its temperature and the retry failed too
C5_Witness ==
    /\ pc = "done"
    /\ Len(llm.calls) = 2
    /\ TemperatureRejected(llm.calls[1].outcome)
    /\ llm.calls[2].outcome.kind = "error"
    /\ StatusIs("failed_fallback_used")

(***************************************************************************)
(* C6: for every store and every patient present in it, generate_summary   *)
(* returns a (text, debug) response and never raises, whatever fields of   *)
(* the patient's rows are missing.                                         *)
(***************************************************************************)
C6_NeverRaises == (pc = "done" /\ Present(tables, req.patient_id)) => ~HasRaised

(***************************************************************************)
(* C7: every request for a present patient eventually gets a response,     *)
(* even when the backend never answers the call in flight.                 *)
(***************************************************************************)
C7_EventuallyResponds == (pc \in {"call1", "call2"}) ~> (pc = "done" /\ HasResult)

(***************************************************************************)
(* generate_summary(tables, patient_id, use_llm=False) on a loaded store   *)
(* whose rows carry free text, with the locals of the call kept for        *)
(* inspection.                                                             *)
(***************************************************************************)
MaxRowsEvidence == 2

\* free text that itself holds a citation tag
Cited == Lit("see ") \o Lit("[Source: x]")

EvidenceRows(t) ==
    { [c \in Columns(t) |->
          CASE c = "patient_id" -> 1
            [] c = "episode_id" -> k[1]
            [] c \in {"visit_date", "note_date", "assessment_date"} -> k[2]
            [] c \in {"onset_date", "max_value"} -> NULL
            [] c = "vital_type" -> k[3]
            [] c = "reading" -> 2
            [] c = "min_value" -> 3
            [] c \in {"diagnosis_description", "note_text", "description"} ->
                 IF k[3] = 1 THEN Word("y") ELSE Cited
            [] c \in {"reason", "assessment_type", "ambulation"} -> NaN
            [] OTHER -> Word("x")] :
        k \in (CASE t = "diagnoses" -> {1} \X {NULL} \X {1, 2}
                 [] t = "medications" -> {1} \X {NULL} \X {1}
                 [] t = "vitals" -> {1, 2, NULL} \X {1, 2, NULL} \X {1}
                                    \cup {1} \X {1, 2, NULL} \X {2}
                 [] t = "notes" -> {1, 2} \X {1, NULL} \X {1}
                                   \cup {1} \X {1, NULL} \X {2}
                 [] t = "wounds" -> {1} \X {1, NULL} \X {1, 2}
                 [] t = "oasis" -> {1, 2} \X {1, 2, NULL} \X {1}) }

\* the local variables of generate_summary (summary_generator.py:126-135)
Locals(r) ==
    IF ~patient_exists(tables, r.patient_id) THEN [found |-> FALSE]
    ELSE
      \* summary_generator.py:129-130
      LET bundle == get_patient_bundle(tables, r.patient_id, sortTies)
          episode_id == bundle.latest_episode_id
          \* summary_generator.py:132
          ep_bundle == get_episode_bundle(tables, r.patient_id, episode_id, sortTies)
          \* summary_generator.py:133
          si == prepare_summary_inputs(ep_bundle, r.patient_id, episode_id, sortTies)
      IN  IF si.err # "none"
          THEN [found |-> TRUE, bundle |-> bundle, ep_bundle |-> ep_bundle,
                raised |-> TRUE]
          ELSE [found |-> TRUE, bundle |-> bundle, ep_bundle |-> ep_bundle,
                raised |-> FALSE, summary_inputs |-> si,
                \* summary_generator.py:135
                prompt |-> build_prompt(si)]

InitEvidence ==
    /\ InitCommon
    /\ env = [api_key |-> TRUE]
    /\ \E b \in BOOLEAN : tables = EmptyStore(b)

WriteRowEvidence ==
    \E t \in SeqToSet(CSV_FILES) : \E r \in EvidenceRows(t) : WriteRow(t, r, MaxRowsEvidence)

\* generate_summary(tables, 1, use_llm=False) called by a program
GenerateSkipLlm ==
    /\ pc = "idle"
    /\ out.kind = "none"
    /\ \E r \in { x \in Requests("direct") : x.patient_id = 1 /\ ~x.use_llm } :
       \E g \in {GenerateStart(r)} :
       \E l \in {Locals(r)} :
          /\ pc' = "done"
          /\ req' = r
          /\ resp' = Deliver(r, g)
          /\ out' = [kind |-> "locals", locals |-> l]
    /\ UNCHANGED <<tables, sortTies, env, llm>>

NextEvidence == WriteRowEvidence \/ GenerateSkipLlm

SpecEvidence == InitEvidence /\ [][NextEvidence]_vars

\* the call built a structured summary and a prompt from it
Built == out.kind = "locals" /\ out.locals.found /\ ~out.locals.raised

(***************************************************************************)
(* Reading a rendered text: its lines, its bullets and its citation tags.  *)
(* A tag that free text carries starts a token of its own.                 *)
(***************************************************************************)
\* the tokens at which a non-empty line of the text starts
LineStarts(text) ==
    { i \in 1..Len(text) : text[i].s # "\n" /\ (i = 1 \/ text[i - 1].s = "\n") }

\* the line that starts at token i, up to the next line break
LineAt(text, i) ==
    SubSeq(text, i,
           CHOOSE j \in i..Len(text) :
               /\ j = Len(text) \/ text[j + 1].s = "\n"
               /\ \A k \in i..j : text[k].s # "\n")

\* the token is the literal s or begins with it
TokStartsWith(tok, s) ==
    /\ tok.n >= Len(s)
    /\ Len(tok.s) >= Len(s)
    /\ SubSeq(tok.s, 1, Len(s)) = s

\* line.startswith(s)
StartsWith(line, s) == line # <<>> /\ TokStartsWith(line[1], s)

IsLiteral(tok) == tok.n = Len(tok.s)

LastChar(s) == SubSeq(s, Len(s), Len(s))

\* the places of the character c in the string s
Places(s, c) == {i \in 1..Len(s) : SubSeq(s, i, i) = c}

\* "[Source: <file>]" or "[Source: <file> | <key>=<value>]" in one literal
WholeTag(tok) ==
    /\ IsLiteral(tok)
    /\ TokStartsWith(tok, "[Source: ")
    /\ Len(tok.s) > Len("[Source: ]")
    /\ Places(tok.s, "]") = {Len(tok.s)}
    /\ Places(tok.s, "|") # {} => Places(tok.s, "=") # {}

\* "[Source: <file> | <key>=", a formatted date or N/A, and "]"
KeyedTagAt(line, i) ==
    /\ i >= 1
    /\ i + 2 <= Len(line)
    /\ IsLiteral(line[i])
    /\ TokStartsWith(line[i], "[Source: ")
    /\ Places(line[i].s, "|") # {}
    /\ Places(line[i].s, "]") = {}
    /\ LastChar(line[i].s) = "="
    /\ <<line[i + 1]>> \in {DateText(d) : d \in 1..9} \cup {Lit("N/A")}
    /\ <<line[i + 2]>> = Lit("]")

\* a well-formed citation tag ends at token j of the line
TagEndsAt(line, j) ==
    \/ j \in 1..Len(line) /\ WholeTag(line[j])
    \/ KeyedTagAt(line, j - 2)

HasTag(line) == \E j \in 1..Len(line) : TagEndsAt(line, j)

EndsWithTag(line) == line # <<>> /\ TagEndsAt(line, Len(line))

\* the text holds the substring "[Source:"
MentionsSource(text) == \E i \in 1..Len(text) : TokStartsWith(text[i], "[Source:")

IsBullet(line) == StartsWith(line, "- ")

\* the lines of the text that start with "- "
Bullets(text) == { i \in LineStarts(text) : TokStartsWith(text[i], "- ") }

\* the line starts strictly between the two heading lines
Between(text, from, to) ==
    LET heads == { a \in LineStarts(text) : <<text[a]>> \in {Lit(from), Lit(to)} }
    IN  { i \in LineStarts(text) :
            /\ \E a \in heads : a < i /\ LineAt(text, a) = Lit(from)
            /\ \E b \in heads : b > i /\ LineAt(text, b) = Lit(to) }

\* the bullets of the six patient data sections of a prompt
DataBullets(text) ==
    Bullets(text) \cap Between(text, "PATIENT EHR DATA", "OUTPUT FORMAT")

TemplateReturned == Built /\ resp.kind = "returned"

\* a free-text field that the template copies holds "[Source:"
FreeTextMentionsSource(si) ==
    \/ \E i \in 1..Len(si.diagnoses_summary) : MentionsSource(si.diagnoses_summary[i])
    \/ \E i \in 1..Len(si.medications_summary) :
          \/ MentionsSource(si.medications_summary[i].name)
          \/ MentionsSource(si.medications_summary[i].frequency)
          \/ MentionsSource(si.medications_summary[i].reason)
    \/ \E i \in 1..Len(si.vitals_summary.abnormal) :
          MentionsSource(si.vitals_summary.abnormal[i])
    \/ \E i \in 1..Len(si.wounds_summary) :
          \/ MentionsSource(si.wounds_summary[i].description)
          \/ MentionsSource(si.wounds_summary[i].location)
    \/ MentionsSource(si.oasis_summary.assessment_type)
    \/ \E i \in 1..Len(si.oasis_summary.adl) : MentionsSource(si.oasis_summary.adl[i].v)
    \/ \E i \in 1..Len(si.note_highlights) :
          \/ MentionsSource(si.note_highlights[i].type)
          \/ MentionsSource(si.note_highlights[i].snippet)

OtherDates(tbls, p, i) ==
    UNION { { Cell(tbls[DATE_PRIORITY[k].table].rows[j], DATE_PRIORITY[k].date_col) :
                j \in { x \in 1..Len(tbls[DATE_PRIORITY[k].table].rows) :
                          /\ ~(DATE_PRIORITY[k].table = "vitals" /\ x = i)
                          /\ Cell(tbls[DATE_PRIORITY[k].table].rows[x], "patient_id") = p } } :
            k \in 1..Len(DATE_PRIORITY) } \ {NULL}

\* vitals row i is the patient's and dated strictly later than every other dated row
StrictlyLatestVitals(tbls, p, i) ==
    /\ tbls["vitals"].rows[i].patient_id = p
    /\ tbls["vitals"].rows[i].visit_date # NULL
    /\ \A d \in OtherDates(tbls, p, i) : d < tbls["vitals"].rows[i].visit_date

\* the prompt has a vitals bullet of that vital type citing that visit date
CitesVitals(prompt, vital_type, date) ==
    \E i \in DataBullets(prompt) :
        LET line == LineAt(prompt, i)
        IN  /\ Len(line) >= 5
            /\ <<line[2]>> = VitalTypeText(vital_type)
            /\ SubSeq(line, Len(line) - 2, Len(line)) =
                  Lit("[Source: vitals.csv | visit_date=") \o DateText(date) \o Lit("]")

(***************************************************************************)
(* C13: end to end, for a patient whose vitals row r is dated strictly     *)
(* later than every other dated row of the patient in the four date tables *)
(* the latest episode is r's, r survives the episode filter, the vitals    *)
(* summary entry of r's vital type has r's date and the prompt's vitals    *)
(* bullet of that type cites visit_date = r's date.                        *)
(***************************************************************************)
C13_EndToEnd ==
    out.kind = "locals" =>
        \A i \in 1..Len(tables["vitals"].rows) :
            StrictlyLatestVitals(tables, req.patient_id, i) =>
                LET r == tables["vitals"].rows[i]
                IN  /\ out.locals.found
                    /\ out.locals.bundle.latest_episode_id = r.episode_id
                    /\ \E j \in 1..Len(out.locals.ep_bundle["vitals"].rows) :
                          out.locals.ep_bundle["vitals"].rows[j] = r
                    /\ ~out.locals.raised
                    /\ \E k \in 1..Len(out.locals.summary_inputs.vitals_summary.latest_vitals) :
                          LET v == out.locals.summary_inputs.vitals_summary.latest_vitals[k]
                          IN  v.vital_type = r.vital_type /\ v.date = r.visit_date
                    /\ CitesVitals(out.locals.prompt, r.vital_type, r.visit_date)

\* every row of the table lacks the date
AllUndated(df, date_col) ==
    df.rows # <<>> /\ \A i \in 1..Len(df.rows) : df.rows[i][date_col] = NULL

(***************************************************************************)
(* C14: every summarizer is total.  On an empty table each of the six      *)
(* returns its empty summary; a table whose rows all lack the date is as a *)
(* table without rows for the most recent row: summarize_vitals returns    *)
(* latest_date None and no latest vitals, summarize_oasis latest_date None *)
(* and an empty ADL map, and neither raises.                               *)
(***************************************************************************)
C14_SummarizersTotal ==
    /\ (out.kind \in {"diagnoses", "medications", "notes", "wounds"}
        /\ tables[out.kind].rows = <<>>) => out.result = <<>>
    /\ out.kind = "vitals" =>
          /\ out.result.err = "none"
          /\ (tables["vitals"].rows = <<>> \/ AllUndated(tables["vitals"], "visit_date")) =>
                /\ out.result.latest_date = NULL
                /\ out.result.latest_vitals = <<>>
    /\ out.kind = "oasis" =>
          /\ out.result.err = "none"
          /\ (tables["oasis"].rows = <<>> \/ AllUndated(tables["oasis"], "assessment_date")) =>
                /\ out.result.latest_date = NULL
                /\ out.result.adl = <<>>

\* the rows of table k of DATE_PRIORITY that are the patient's, carry date and
\* episode, and hold the date d
TiedRows(tbls, p, k, d) ==
    { i \in 1..Len(tbls[DATE_PRIORITY[k].table].rows) :
        LET r == tbls[DATE_PRIORITY[k].table].rows[i]
        IN  /\ Cell(r, "patient_id") = p
            /\ Cell(r, "episode_id") # NULL
            /\ Cell(r, DATE_PRIORITY[k].date_col) = d }

\* the first table in priority order with a row of date d, and its first such row
FirstTied(tbls, p, d) ==
    LET k == CHOOSE x \in 1..Len(DATE_PRIORITY) :
                 /\ TiedRows(tbls, p, x, d) # {}
                 /\ \A y \in 1..(x - 1) : TiedRows(tbls, p, y, d) = {}
        i == CHOOSE x \in TiedRows(tbls, p, k, d) : \A y \in TiedRows(tbls, p, k, d) : x <= y
    IN  tbls[DATE_PRIORITY[k].table].rows[i]

(***************************************************************************)
(* C15: when several rows of the patient share the maximum date,           *)
(* get_latest_episode_id returns the episode of the tied row of the first  *)
(* table in the order vitals, notes, wounds, oasis, and within that table  *)
(* of the tied row that comes first in row order.                          *)
(***************************************************************************)
C15_TieBreak ==
    (out.kind = "bundle" /\ DatedPairs(tables, out.bundle.patient_id) # {}) =>
        LET p == out.bundle.patient_id
            top == Max({pr[1] : pr \in DatedPairs(tables, p)})
        IN  out.bundle.latest_episode_id = FirstTied(tables, p, top).episode_id

(***************************************************************************)
(* The filters and get_episode_bundle called directly on a loaded store.   *)
(***************************************************************************)
MaxRowsFilter == 2

\* rows of patient 1 in every episode or none, and a row of patient 2 and a
\* row without patient id in episode 1
FilterRows(t) ==
    { [c \in Columns(t) |->
          IF c = "patient_id" THEN k[1]
          ELSE IF c = "episode_id" THEN k[2]
          ELSE Missing(c)] :
        k \in { x \in {1, 2, NULL} \X
                      (IF "episode_id" \in Columns(t) THEN {1, 2, NULL} ELSE {NULL}) :
                  x[1] = 1 \/ x[2] \in {1, NULL} } }

InitFilter ==
    /\ InitCommon
    /\ sortTies = "first"
    /\ env = [api_key |-> TRUE]
    /\ \E b \in BOOLEAN : tables = EmptyStore(b)

WriteRowFilter ==
    \E t \in SeqToSet(CSV_FILES) : \E r \in FilterRows(t) : WriteRow(t, r, MaxRowsFilter)

\* get_episode_bundle(tables, patient_id, episode_id)
EpisodeBundle ==
    /\ pc = "idle"
    /\ out.kind = "none"
    /\ \E p \in Patients : \E e \in Episodes \cup {NULL} :
         out' = [kind |-> "episode_bundle", patient_id |-> p, episode_id |-> e,
                 data |-> get_episode_bundle(tables, p, e, sortTies)]
    /\ UNCHANGED <<tables, sortTies, env, pc, req, resp, llm>>

\* _filter_by_patient and _filter_by_episode applied to every table
FilterTables ==
    /\ pc = "idle"
    /\ out.kind = "none"
    /\ \E p \in Patients : \E e \in Episodes \cup {NULL} :
         out' = [kind |-> "filtered", patient_id |-> p, episode_id |-> e,
                 by_patient |-> [t \in DOMAIN tables |-> _filter_by_patient(tables[t], p)],
                 by_episode |-> [t \in DOMAIN tables |-> _filter_by_episode(tables[t], e)]]
    /\ UNCHANGED <<tables, sortTies, env, pc, req, resp, llm>>

NextFilter == WriteRowFilter \/ EpisodeBundle \/ FilterTables

SpecFilter == InitFilter /\ [][NextFilter]_vars

\* the rows of the table that carry the key value, in row order; a missing
\* cell carries no value
RowsWith(df, col, value) ==
    SelectSeq(df.rows, LAMBDA r : value # NULL /\ Cell(r, col) # NULL /\ Cell(r, col) = value)

(***************************************************************************)
(* C16: each table of get_episode_bundle(store, p, e) holds exactly the    *)
(* rows of patient p that, when the table has an episode_id column, are of *)
(* episode e (a row with a null episode_id is never retained); a table     *)
(* without the column keeps all of p's rows; a row without patient_id is   *)
(* in no patient view; the filters return the table with no rows when it   *)
(* is empty, lacks the key column or has no matching row.                  *)
(***************************************************************************)
C16_EpisodeBundle ==
    /\ out.kind = "episode_bundle" =>
          \A t \in DOMAIN tables :
              /\ out.data[t].cols = tables[t].cols
              /\ LET mine == RowsWith(tables[t], "patient_id", out.patient_id)
                 IN  out.data[t].rows =
                        IF "episode_id" \in tables[t].cols
                        THEN RowsWith([tables[t] EXCEPT !.rows = mine],
                                      "episode_id", out.episode_id)
                        ELSE mine
              /\ \A i \in 1..Len(out.data[t].rows) :
                    /\ out.data[t].rows[i].patient_id # NULL
                    /\ "episode_id" \in tables[t].cols =>
                          out.data[t].rows[i].episode_id # NULL
    /\ out.kind = "filtered" =>
          \A t \in DOMAIN tables :
              /\ out.by_patient[t].cols = tables[t].cols
              /\ out.by_episode[t].cols = tables[t].cols
              /\ out.by_patient[t].rows = RowsWith(tables[t], "patient_id", out.patient_id)
              /\ out.by_episode[t].rows = RowsWith(tables[t], "episode_id", out.episode_id)
              /\ "episode_id" \notin tables[t].cols => out.by_episode[t].rows = <<>>

\* an episode bundle that dropped a vitals row of the patient without episode
\* id and kept the patient's row of an OASIS table without the column
C16_Witness ==
    /\ out.kind = "episode_bundle"
    /\ "episode_id" \notin tables["oasis"].cols
    /\ Len(out.data["oasis"].rows) = 1
    /\ Len(tables["vitals"].rows) = 1
    /\ tables["vitals"].rows[1].patient_id = out.patient_id
    /\ tables["vitals"].rows[1].episode_id = NULL
    /\ out.data["vitals"].rows = <<>>

\* the bullets between the line that starts with from and the later line
\* that starts with to
SectionBullets(text, from, to) ==
    LET starts == LineStarts(text)
        heads == { a \in starts : TokStartsWith(text[a], from) }
        ends == { b \in starts : TokStartsWith(text[b], to) }
    IN  { i \in starts :
            /\ TokStartsWith(text[i], "- ")
            /\ \E a \in heads : a < i
            /\ \E b \in ends : b > i }

\* the section has the one bullet given
OnlyBullet(text, from, to, bullet) ==
    LET section == SectionBullets(text, from, to)
    IN  /\ Cardinality(section) = 1
        /\ \A i \in section : LineAt(text, i) = bullet

\* the five sections whose bullet for no data reads "Not documented"
NotDocumentedSections(si, prompt) ==
    /\ si.diagnoses_summary = <<>> =>
          OnlyBullet(prompt, "1) Diagnoses:", "2) Medications:",
                     Lit("- Not documented ") \o Lit("[Source: diagnoses.csv]"))
    /\ si.medications_summary = <<>> =>
          OnlyBullet(prompt, "2) Medications:", "3) Vitals (",
                     Lit("- Not documented ") \o Lit("[Source: medications.csv]"))
    /\ si.vitals_summary.latest_vitals = <<>> =>
          OnlyBullet(prompt, "3) Vitals (", "Abnormal vitals:",
                     Lit("- Not documented ") \o Lit("[Source: vitals.csv]"))
    /\ si.oasis_summary.adl = <<>> =>
          OnlyBullet(prompt, "ADL / Mobility:", "6) Recent Notes:",
                     Lit("- Not documented ") \o Lit("[Source: oasis.csv | assessment_date=")
                     \o (IF si.oasis_summary.latest_date = NULL THEN Lit("N/A")
                         ELSE DateText(si.oasis_summary.latest_date))
                     \o Lit("]"))
    /\ si.note_highlights = <<>> =>
          OnlyBullet(prompt, "6) Recent Notes:", "OUTPUT FORMAT",
                     Lit("- Not documented ") \o Lit("[Source: notes.csv]"))

(***************************************************************************)
(* C17 as stated: for each of the sections diagnoses, medications, vitals, *)
(* notes, wounds and ADL, a summary without data for the section gives     *)
(* exactly one bullet in it, reading "Not documented" and carrying the     *)
(* citation tag that names the section's table file.                       *)
(***************************************************************************)
C17_NotDocumentedEverywhere ==
    Built =>
        /\ NotDocumentedSections(out.locals.summary_inputs, out.locals.prompt)
        /\ out.locals.summary_inputs.wounds_summary = <<>> =>
              OnlyBullet(out.locals.prompt, "4) Wounds:", "5) Functional Status (OASIS):",
                         Lit("- Not documented ") \o Lit("[Source: wounds.csv]"))

(***************************************************************************)
(* C17: a summary without data for diagnoses, medications, latest vitals,  *)
(* notes or ADL gives exactly one bullet in that section, reading "Not     *)
(* documented" with the tag of the section's file (the ADL tag with        *)
(* assessment_date); without wounds the one bullet of the wounds section   *)
(* reads "No wounds documented" with the tag of wounds.csv; without        *)
(* abnormal vitals the block under "Abnormal vitals:" has the one bullet   *)
(* "None flagged" with the tag of vitals.csv.                              *)
(***************************************************************************)
C17_EmptySectionBullets ==
    Built =>
        /\ NotDocumentedSections(out.locals.summary_inputs, out.locals.prompt)
        /\ out.locals.summary_inputs.wounds_summary = <<>> =>
              OnlyBullet(out.locals.prompt, "4) Wounds:", "5) Functional Status (OASIS):",
                         Lit("- No wounds documented ") \o Lit("[Source: wounds.csv]"))
        /\ out.locals.summary_inputs.vitals_summary.abnormal = <<>> =>
              OnlyBullet(out.locals.prompt, "Abnormal vitals:", "4) Wounds:",
                         Lit("- None flagged ") \o Lit("[Source: vitals.csv]"))

\* a prompt was built from a summary whose only data is a medication
C17_Witness ==
    /\ Built
    /\ out.locals.summary_inputs.medications_summary # <<>>
    /\ out.locals.summary_inputs.diagnoses_summary = <<>>
    /\ out.locals.summary_inputs.vitals_summary.latest_vitals = <<>>
    /\ out.locals.summary_inputs.wounds_summary = <<>>
    /\ out.locals.summary_inputs.oasis_summary.adl = <<>>
    /\ out.locals.summary_inputs.note_highlights = <<>>
    /\ Cardinality(DataBullets(out.locals.prompt)) = 7

\* the vitals rows that carry a date
DatedVitals(df) == { i \in 1..Len(df.rows) : df.rows[i].visit_date # NULL }

MaxRowsConc == 2

Workers == {1, 2}

ConcRows(t) ==
    { [c \in Columns(t) |-> PipeCell(c, k[1], 1, k[2])] :
        k \in (CASE t = "diagnoses" -> {<<1, NULL>>, <<2, NULL>>}
                 [] t = "vitals" -> {<<1, 1>>, <<1, NULL>>}
                 [] OTHER -> {}) }

\* what the backend does with a call of a worker
ConcOutcomes ==
    { [kind |-> "content", content |-> Lit("summary")],
      [kind |-> "error", exc |-> Exc("APIError", {"temperature", "unsupported"})],
      [kind |-> "error", exc |-> Exc("APIError", {})] }

\* the mutant: the patient filter drops the other rows from the shared table
SharedAfterFilterInPlace(tbls, patient_id) ==
    [t \in DOMAIN tbls |-> _filter_by_patient(tbls[t], patient_id)]

\* the shared tables after a request filtered them: _filter_by_patient and
\* _filter_by_episode return df[...].copy(), the summarizers rebind their
\* argument, nothing writes to a shared frame
SharedAfterFilter(tbls, patient_id) == tbls

InitConc ==
    /\ sortTies \in {"first", "last"}
    /\ env = [api_key |-> TRUE]
    /\ tables = EmptyStore(TRUE)
    /\ pc = [w \in Workers |-> "idle"]
    /\ req = [w \in Workers |-> NoReq]
    /\ resp = [w \in Workers |-> NoResp]
    /\ llm = [w \in Workers |-> NoLlm]
    /\ out = NoOut

\* one more row in one of the CSV files, before the server loads them
WriteRowConc ==
    /\ out.kind = "none"
    /\ TotalRows(tables) < MaxRowsConc
    /\ \E t \in SeqToSet(CSV_FILES) : \E r \in ConcRows(t) :
          /\ Appendable(tables, t)
          /\ tables' = [tables EXCEPT ![t].rows =
                           Append(@, [c \in tables[t].cols |-> r[c]])]
    /\ UNCHANGED <<sortTies, env, pc, req, resp, llm, out>>

\* the first get_tables() call: load_data() runs and lru_cache keeps its result
GetTables ==
    /\ out.kind = "none"
    /\ out' = [kind |-> "loaded", tables |-> tables]
    /\ UNCHANGED <<tables, sortTies, env, pc, req, resp, llm>>

\* main.py:76-82: a worker takes a request, reads the cached store and
\* answers 404 for an absent patient
ConcReceive(w) ==
    /\ out.kind = "loaded"
    /\ pc[w] \in {"idle", "done"}
    /\ \E r \in Requests("http") :
         /\ req' = [req EXCEPT ![w] = r]
         /\ llm' = [llm EXCEPT ![w] = NoLlm]
         /\ IF ~patient_exists(tables, r.patient_id)
            THEN /\ pc' = [pc EXCEPT ![w] = "done"]
                 /\ resp' = [resp EXCEPT ![w] =
                               [kind |-> "http", status |-> 404,
                                detail |-> NotFoundDetail(r.patient_id)]]
            ELSE /\ pc' = [pc EXCEPT ![w] = "checked"]
                 /\ resp' = [resp EXCEPT ![w] = NoResp]
    /\ UNCHANGED <<tables, sortTies, env, out>>

\* main.py:84-89: the worker runs generate_summary up to its return, its
\* raise or its first backend call
ConcGenerate(w) ==
    /\ out.kind = "loaded"
    /\ pc[w] = "checked"
    /\ \E g \in {GenerateStart(req[w])} :
         IF g.kind = "calling"
         THEN /\ pc' = [pc EXCEPT ![w] = "call1"]
              /\ req' = [req EXCEPT ![w] = Merge(@, [summary_inputs |-> g.summary_inputs,
                                                    prompt |-> g.prompt])]
              /\ llm' = [llm EXCEPT ![w] = [calls |-> <<Call(req[w], TRUE)>>]]
              /\ UNCHANGED resp
         ELSE /\ pc' = [pc EXCEPT ![w] = "done"]
              /\ resp' = [resp EXCEPT ![w] = Deliver(req[w], g)]
              /\ UNCHANGED <<req, llm>>
    /\ tables' = SharedAfterFilter(tables, req[w].patient_id)
    /\ UNCHANGED <<sortTies, env, out>>

\* the backend answers the call a worker has in flight, or fails it
ConcBackendAnswer(w) ==
    /\ pc[w] \in {"call1", "call2"}
    /\ llm[w].calls[Len(llm[w].calls)].outcome = NoReply
    /\ \E o \in ConcOutcomes :
         llm' = [llm EXCEPT ![w].calls[Len(llm[w].calls)].outcome = o]
    /\ UNCHANGED <<tables, sortTies, env, pc, req, resp, out>>

\* the request of worker w ends with the result
ConcFinish(w, result) ==
    /\ pc' = [pc EXCEPT ![w] = "done"]
    /\ resp' = [resp EXCEPT ![w] = Deliver(req[w], result)]
    /\ UNCHANGED llm

\* llm_client.py:48-65, attempt 1 of worker w has come back
ConcHandleReply1(w) ==
    /\ pc[w] = "call1"
    /\ llm[w].calls[1].outcome # NoReply
    /\ \E rd \in {ReadContent(llm[w].calls[1].outcome)} :
           IF rd.ok THEN ConcFinish(w, Success(req[w], req[w].summary_inputs, rd.text))
           ELSE IF RetryWithoutTemperature(rd.exc)
           THEN /\ pc' = [pc EXCEPT ![w] = "call2"]
                /\ llm' = [llm EXCEPT ![w].calls = Append(@, Call(req[w], FALSE))]
                /\ UNCHANGED resp
           ELSE ConcFinish(w, Fallback(req[w], req[w].summary_inputs, req[w].prompt, rd.exc))
    /\ UNCHANGED <<tables, sortTies, env, req, out>>

\* llm_client.py:61-65, the retry of worker w has come back
ConcHandleReply2(w) ==
    /\ pc[w] = "call2"
    /\ llm[w].calls[2].outcome # NoReply
    /\ \E rd \in {ReadContent(llm[w].calls[2].outcome)} :
           IF rd.ok THEN ConcFinish(w, Success(req[w], req[w].summary_inputs, rd.text))
           ELSE ConcFinish(w, Fallback(req[w], req[w].summary_inputs, req[w].prompt, rd.exc))
    /\ UNCHANGED <<tables, sortTies, env, req, out>>

NextConc ==
    \/ WriteRowConc
    \/ GetTables
    \/ \E w \in Workers : ConcReceive(w)
    \/ \E w \in Workers : ConcGenerate(w)
    \/ \E w \in Workers : ConcBackendAnswer(w)
    \/ \E w \in Workers : ConcHandleReply1(w)
    \/ \E w \in Workers : ConcHandleReply2(w)

SpecConc == InitConc /\ [][NextConc]_vars

\* what the endpoint answers to request r run alone on the store tbls, the
\* backend answering its calls as in calls
AnswerAlone(tbls, r, calls) ==
    IF ~patient_exists(tbls, r.patient_id)
    THEN [kind |-> "http", status |-> 404, detail |-> NotFoundDetail(r.patient_id)]
    ELSE
      LET si == SummaryInputs(tbls, r.patient_id, sortTies)
          base == [entry |-> r.entry, patient_id |-> r.patient_id,
                   use_llm |-> r.use_llm, model |-> r.model]
      IN  IF si.err # "none" THEN Deliver(base, [kind |-> "raised", exc |-> Exc(si.err, {})])
          ELSE IF ~r.use_llm THEN Deliver(base, TemplateOnly(base, si))
          ELSE LET rd == ReadContent(calls[Len(calls)].outcome)
               IN  IF rd.ok THEN Deliver(base, Success(base, si, rd.text))
                   ELSE Deliver(base, Fallback(base, si, build_prompt(si), rd.exc))

(***************************************************************************)
(* C19: whatever requests have run or are running on the workers, the      *)
(* store is as get_tables() loaded it, and the response of every finished  *)
(* request is the response of that request run alone on the loaded store.  *)
(***************************************************************************)
C19_StoreUnchanged ==
    out.kind = "loaded" =>
        /\ tables = out.tables
        /\ \A w \in Workers :
              pc[w] = "done" => resp[w] = AnswerAlone(out.tables, req[w], llm[w].calls)

\* a request for one patient finished while a request for the other patient
\* had a backend call in flight
C19_Witness ==
    /\ out.kind = "loaded"
    /\ \E v, w \in Workers :
          /\ pc[v] = "done"
          /\ resp[v].kind = "http"
          /\ resp[v].status = 200
          /\ pc[w] = "call1"
          /\ req[v].patient_id # req[w].patient_id

(***************************************************************************)
(* C20: the latest_episode_id of the patient bundle is None or one of the  *)
(* bundle's episode_ids, and None exactly when episode_ids is empty; with  *)
(* None, generate_summary still returns for a present patient, and every   *)
(* table with an episode_id column is filtered to zero rows.               *)
(***************************************************************************)
C20_LatestAmongEpisodes ==
    (out.kind = "locals" /\ out.locals.found) =>
        LET latest == out.locals.bundle.latest_episode_id
            episode_ids == out.locals.bundle.episode_ids
        IN  /\ latest = NULL \/ latest \in SeqToSet(episode_ids)
            /\ latest = NULL <=> episode_ids = <<>>
            /\ latest = NULL =>
                  /\ \A t \in DOMAIN tables :
                        "episode_id" \in tables[t].cols => out.locals.ep_bundle[t].rows = <<>>
                  /\ ~out.locals.raised
                  /\ resp.kind = "returned"

(***************************************************************************)
(* C21: without an API key, a request with use_llm = TRUE for a present    *)
(* patient makes no backend call (call_llm raises before the first one)    *)
(* and ends in the fallback response: llm_status "failed_fallback_used"    *)
(* with the credential error in debug.                                     *)
(***************************************************************************)
C21_NoKeyNoCall ==
    (/\ ~env.api_key
     /\ req.entry # "none"
     /\ req.use_llm
     /\ Present(tables, req.patient_id)) =>
        /\ llm.calls = <<>>
        /\ pc = "done"
        /\ StatusIs("failed_fallback_used")
        /\ resp.debug.error = Exc("RuntimeError", {})

====
